---- MODULE Spec2Model ----
(***************************************************************************)
(* Model of cellar's install and update pipelines                          *)
(* (cellar/backend/installer.py, cellar/backend/updater.py).               *)
(*                                                                         *)
(* A directory tree is a function from relative file paths (sequences of   *)
(* path segments) to file contents; a directory exists where some file     *)
(* lies below it.  One call of install_app or update_app_safe is a         *)
(* process whose position is pc; the caller's cancel_event is the flag     *)
(* cancel, which the environment may set at any moment.                    *)
(***************************************************************************)
EXTENDS Integers, Sequences, FiniteSets, TLC

\* ------------------------------------------------------------------ bounds
\* Number of 1 MB chunks the remote archive is served in.
NChunks == 2
\* Candidate names id, id-2 .. id-MaxSuffix that may pre-exist under data_path.
MaxSuffix == 3
\* Largest number of files in a source / destination tree of SpecOverlay.
MaxSrcFiles == 2
MaxDstFiles == 2

\* ------------------------------------------------------------ path helpers
IsProperPrefix(p, q) == Len(p) < Len(q) /\ SubSeq(q, 1, Len(p)) = p

\* Path.is_dir() inside tree t: some file lies strictly below p.
IsDir(t, p) == \E q \in DOMAIN t : IsProperPrefix(p, q)

\* Path.is_file() inside tree t.
IsFile(t, p) == p \in DOMAIN t

EmptyTree == [q \in {} |-> ""]

\* Mutant: an existing file is appended to instead of replaced.
WriteFile_append(t, p, c) ==
    [q \in (DOMAIN t) \cup {p} |->
        IF q # p THEN t[q] ELSE IF p \in DOMAIN t THEN t[p] \o c ELSE c]

\* Writing content c to path p of tree t (open(p, "wb") / copy of one file).
WriteFile(t, p, c) == [q \in (DOMAIN t) \cup {p} |-> IF q = p THEN c ELSE t[q]]

\* The tree below directory d of t, with paths made relative to d.
SubTree(t, d) ==
    LET below == {q \in DOMAIN t : IsProperPrefix(d, q)}
        rel(q) == SubSeq(q, Len(d) + 1, Len(q))
    IN  [r \in {rel(q) : q \in below} |->
            t[CHOOSE q \in below : rel(q) = r]]

\* A set of paths is a tree when no file lies below another file.
IsTree(paths) == \A p \in paths, q \in paths : ~IsProperPrefix(p, q)

\* str.lower() on the path segments the model uses.
Lower(s) ==
    CASE s = "AppData"   -> "appdata"
      [] s = "Roaming"   -> "roaming"
      [] s = "Local"     -> "local"
      [] s = "LocalLow"  -> "locallow"
      [] s = "Documents" -> "documents"
      [] s = "User.reg"  -> "user.reg"
      [] s = "HTTPS"     -> "https"
      [] s = ".JPG"      -> ".jpg"
      [] OTHER           -> s

LowerParts(rel) == [i \in 1..Len(rel) |-> Lower(rel[i])]

\* ------------------------------------------------------------------- state
VARIABLES
    call,         \* the call's arguments: op, archive_uri, archive_sha256,
                  \* arch (the archive behind the URI), has_backup, rsync
    pc,           \* position of the call in its code
    phase,        \* the last pipeline phase that was begun
    outcome,      \* "running", "returned" or the exception that left the call
    cancel,       \* cancel_event.is_set()
    tmp,          \* the TemporaryDirectory of the call
    data_path,    \* install: bottles_install.data_path, entry name -> tree
    bottle,       \* update / overlay: tree of the installed bottle (dst)
    backup,       \* update: the file at backup_path
    bottle_src,   \* tree of the identified bottle directory (src)
    bottle_name,  \* install: the chosen name
    todo,         \* work left in the running loop (chunks, members, files)
    proc,         \* the rsync child process
    archive_file, \* the file behind archive_uri: its archive, 0 when absent
    archive_path, \* what _acquire_archive returned: "original" or "dest"
    reports,      \* the (phase, fraction) pairs delivered to progress_cb
    hist,         \* history of the call, kept for stating properties
    repo,         \* a Repo object: uri, _fetcher, _asset_cache
    catalogues,   \* what the repositories serve as catalogue.json
    answer,       \* the outcome of the last call on the Repo / RepoManager
    rhist,        \* history of the calls on the Repo
    db,           \* the installed table of cellar.db, with the clock
    sessions,     \* concurrent install_app calls at their placement step
    dest_root     \* the directories under the data path those calls share

pipeline_vars ==
    <<call, pc, phase, outcome, cancel, tmp, data_path, bottle, backup,
      bottle_src, bottle_name, todo, proc, archive_file, archive_path,
      reports, hist>>

repo_vars == <<repo, catalogues, answer, rhist>>

store_vars == <<db, sessions, dest_root>>

vars == <<pipeline_vars, repo_vars, store_vars>>

\* Repo.__init__ before _make_fetcher has run: no fetcher, no asset cache,
\* no bearer token, certificates verified against the default CA bundle.
NoRepo ==
    [uri |-> "", state |-> "new", fetcher |-> "none", asset_cache |-> << >>,
     token |-> "", ssl |-> "default"]

\* No call has been made on the Repo yet.
NoAnswer == [op |-> "", kind |-> "none"]

RHist0 == [fetcher0 |-> "none", fetched |-> << >>, calls |-> 0]

\* The repository variables in the specifications of the two pipelines,
\* which use no Repo object.
\* An empty installed table, no concurrent calls, an empty data path.
NoDb == [rows |-> << >>, now |-> 0, last |-> << >>]

StoreIdle ==
    /\ db = NoDb
    /\ sessions = << >>
    /\ dest_root = << >>

RepoIdle ==
    /\ repo = NoRepo
    /\ catalogues = << >>
    /\ answer = NoAnswer
    /\ rhist = RHist0

\* --------------------------------------------------------- overlay rules
\* A pattern entry that matches any single component ("None" in the source);
\* "/" can never be a path segment.
AnyPart == "/"

EXCLUDE_PREFIXES ==
    { <<"drive_c", "users", AnyPart, "appdata", "roaming">>,
      <<"drive_c", "users", AnyPart, "appdata", "local">>,
      <<"drive_c", "users", AnyPart, "appdata", "locallow">>,
      <<"drive_c", "users", AnyPart, "documents">> }

EXCLUDE_NAMES == {"user.reg", "userdef.reg"}

\* rsync --exclude patterns; dirOnly is the trailing slash.
RSYNC_EXCLUDES ==
    { [pat |-> <<"drive_c", "users", "*", "AppData", "Roaming">>, dirOnly |-> TRUE],
      [pat |-> <<"drive_c", "users", "*", "AppData", "Local">>, dirOnly |-> TRUE],
      [pat |-> <<"drive_c", "users", "*", "AppData", "LocalLow">>, dirOnly |-> TRUE],
      [pat |-> <<"drive_c", "users", "*", "Documents">>, dirOnly |-> TRUE],
      [pat |-> <<"user.reg">>, dirOnly |-> FALSE],
      [pat |-> <<"userdef.reg">>, dirOnly |-> FALSE] }

\* Mutant: the parts are compared without lowercasing them.
is_excluded_case_sensitive(rel) ==
    IF rel = <<>> THEN FALSE
    ELSE IF rel[Len(rel)] \in EXCLUDE_NAMES THEN TRUE
    ELSE \E pattern \in EXCLUDE_PREFIXES :
            /\ Len(rel) >= Len(pattern)
            /\ \A i \in 1..Len(pattern) :
                   pattern[i] = AnyPart \/ pattern[i] = rel[i]

is_excluded(rel) ==
    LET parts == LowerParts(rel)
    IN  IF parts = <<>> THEN FALSE
        ELSE IF parts[Len(parts)] \in EXCLUDE_NAMES THEN TRUE
        ELSE \E pattern \in EXCLUDE_PREFIXES :
                /\ Len(parts) >= Len(pattern)
                /\ \A i \in 1..Len(pattern) :
                       pattern[i] = AnyPart \/ pattern[i] = parts[i]

\* One rsync pattern against one path element q (a file or a directory of the
\* transfer): patterns are case-sensitive, "*" matches one whole component, a
\* pattern without a leading slash matches at the end of the path, a trailing
\* slash matches directories only.
RsyncPatternMatches(e, q, qIsDir) ==
    /\ (e.dirOnly => qIsDir)
    /\ Len(q) >= Len(e.pat)
    /\ \A i \in 1..Len(e.pat) :
           LET s == q[Len(q) - Len(e.pat) + i]
           IN  e.pat[i] = "*" \/ e.pat[i] = s

\* rsync skips a file when the file itself or a directory above it matches
\* an exclude pattern.
RsyncExcluded(rel) ==
    \E n \in 1..Len(rel) : \E e \in RSYNC_EXCLUDES :
        RsyncPatternMatches(e, SubSeq(rel, 1, n), n < Len(rel))

\* ------------------------------------------------------- leaving the call
NoTmp ==
    [exists |-> FALSE, archive |-> FALSE, chunks |-> 0,
     extract_dir |-> FALSE, extracted |-> EmptyTree]

\* Mutant: the directory is left behind.
TemporaryDirectory_exit_leak(t) == t

\* TemporaryDirectory.__exit__: the directory and all it holds are removed.
TemporaryDirectory_exit(t) == NoTmp

\* An exception (or the return) leaving the "with TemporaryDirectory" block.
Leave(result) ==
    /\ outcome' = result
    /\ pc' = "done"
    /\ tmp' = TemporaryDirectory_exit(tmp)

\* An exception raised before the "with" block is entered.
LeaveEarly(result) ==
    /\ outcome' = result
    /\ pc' = "done"
    /\ UNCHANGED tmp

\* Mutant: the flag is never seen.
check_cancel_never(flag) == FALSE

\* _check_cancel: whether the test raises.
check_cancel(flag) == flag

\* Mutant: the loops run without looking at the flag.
is_set_never(flag) == FALSE

\* "cancel_event and cancel_event.is_set()", the test at the head of each
\* iteration of the chunk loops, of the loop of _overlay_python and of the
\* loop of backup_bottle (_cancelled).
is_set(flag) == flag

\* The positions of a call inside _acquire_archive: the download has begun
\* and is not complete.
Downloading == {"acquire", "stream", "stream_read"}

\* The caller sets cancel_event while the call runs.
SetCancel ==
    /\ pc # "done"
    /\ ~cancel
    /\ cancel' = TRUE
    /\ hist' = [hist EXCEPT !.cancel_in_download = @ \/ pc \in Downloading]
    /\ UNCHANGED <<call, archive_file, archive_path, reports, pc, phase,
                   outcome, tmp, data_path, bottle, backup, bottle_src,
                   bottle_name, todo, proc>>
    /\ UNCHANGED <<repo_vars, store_vars>>

\* One more unit of work (a chunk, a member, a file) was processed; counted
\* when the flag was already set.
UnitDone(h) == [h EXCEPT !.after_cancel = IF cancel THEN @ + 1 ELSE @]

\* ---------------------------------------------------------------- progress
\* Fractions are counted in thousandths: ov_hi is the fraction 1.00.
ov_hi == 1000

\* The fraction ranges of update_app_safe; they shift when a backup phase is
\* present.
dl_lo(has_backup) == IF has_backup THEN 200 ELSE 0
dl_hi(has_backup) == IF has_backup THEN 600 ELSE 500
ver_lo(has_backup) == dl_hi(has_backup)
ver_hi(has_backup) == ver_lo(has_backup) + 50
ext_lo(has_backup) == ver_hi(has_backup)
ext_hi(has_backup) == ext_lo(has_backup) + 150
ov_lo(has_backup) == ext_hi(has_backup)

\* n / d as a fraction.
Ratio(n, d) == (n * ov_hi) \div d

\* Mutant: the fraction is not capped.
RatioMin1_uncapped(n, d) == Ratio(n, d)

\* min(n / d, 1.0)
RatioMin1(n, d) == IF n >= d THEN ov_hi ELSE Ratio(n, d)

\* Mutant: the phase's fraction is added to lo without scaling it.
sub_unscaled(lo, hi, f) == lo + f

\* _sub(phase, lo, hi): the fraction lo + f * (hi - lo).
sub(lo, hi, f) == lo + (f * (hi - lo)) \div ov_hi

\* _report(progress_cb, phase, fraction): one more call of the callback.
report(log, phase_name, fraction) == Append(log, <<phase_name, fraction>>)

\* The names the two pipelines report their phases under.
PhaseName(op, ph) ==
    IF op = "install"
    THEN CASE ph = "download" -> "Downloading"
           [] ph = "verify"   -> "Verifying"
           [] OTHER           -> "Installing"
    ELSE CASE ph = "backup"   -> "Backing up..."
           [] ph = "download" -> "Downloading..."
           [] ph = "verify"   -> "Verifying..."
           [] ph = "extract"  -> "Extracting..."
           [] OTHER           -> "Updating..."

\* ----------------------------------------------------------------- overlay
NoProc == [alive |-> FALSE, returncode |-> 0]

\* _overlay: rsync when shutil.which finds it, else the Python fallback; the
\* fallback also runs when Popen raises FileNotFoundError.
overlay ==
    /\ pc = "overlay"
    /\ hist' = [hist EXCEPT !.overlay0 = bottle, !.overlay_begun = TRUE]
    /\ IF call.rsync = "yes"
       THEN /\ pc' = "rsync"
            /\ proc' = [alive |-> TRUE, returncode |-> 0]
            /\ todo' = {rel \in DOMAIN bottle_src : ~RsyncExcluded(rel)}
       ELSE /\ pc' = "overlay_python"
            /\ proc' = proc
            /\ todo' = DOMAIN bottle_src
    /\ UNCHANGED <<call, archive_file, archive_path, reports, phase, outcome,
                   cancel, tmp, data_path, bottle, backup, bottle_src,
                   bottle_name>>
    /\ UNCHANGED <<repo_vars, store_vars>>

\* shutil.copy2(fp, dst_file): a dst_file that is a directory receives the
\* file under the source's base name.
copy2_target(dst, rel) ==
    IF IsDir(dst, rel) THEN Append(rel, rel[Len(rel)]) ELSE rel

\* dst_file.parent.mkdir(parents=True, exist_ok=True) raises when a file
\* stands where a directory is needed.
mkdir_fails(dst, rel) ==
    \E n \in 1..(Len(rel) - 1) : IsFile(dst, SubSeq(rel, 1, n))

\* Mutant: a failed overlay restores the bottle it started from.
overlay_rolled_back(dst) == hist.overlay0

\* The bottle as a failed or cancelled overlay leaves it: the exception
\* propagates and nothing that was written is undone.
overlay_abandoned(dst) == dst

\* What the overlay's progress callback delivers for the fraction f: inside
\* update_app_safe it is _sub("Updating...", ov_lo, ov_hi); _overlay_python
\* reached through the Popen failure has no callback.
overlay_progress(log, f) ==
    IF call.rsync # "no" THEN log
    ELSE IF call.op = "update"
    THEN report(log, "Updating...", sub(ov_lo(call.has_backup), ov_hi, f))
    ELSE report(log, "_overlay", f)

\* The head of one iteration of the loop of _overlay_python: the test of the
\* flag and, for an excluded file, the "continue".
overlay_python_step ==
    /\ pc = "overlay_python"
    /\ todo # {}
    /\ IF is_set(cancel)
       THEN /\ Leave("UpdateCancelled")
            /\ bottle' = overlay_abandoned(bottle)
            /\ UNCHANGED todo
       ELSE \E fp \in todo :
              IF is_excluded(fp)
              THEN /\ todo' = todo \ {fp}
                   /\ UNCHANGED <<pc, outcome, tmp, bottle>>
              ELSE /\ pc' = "copy2"
                   /\ UNCHANGED <<outcome, tmp, bottle, todo>>
    /\ UNCHANGED <<call, archive_file, archive_path, reports, phase, cancel,
                   data_path, backup, bottle_src, bottle_name, proc, hist>>
    /\ UNCHANGED <<repo_vars, store_vars>>

\* The rest of the iteration for a file that is not excluded: mkdir of the
\* parents, shutil.copy2, and the progress report of every 50th file.
overlay_python_file(fp) ==
    IF mkdir_fails(bottle, fp) \/ IsDir(bottle, copy2_target(bottle, fp))
    THEN /\ Leave("OSError")
         /\ bottle' = overlay_abandoned(bottle)
         /\ UNCHANGED <<todo, reports, hist>>
    ELSE /\ bottle' = WriteFile(bottle, copy2_target(bottle, fp), bottle_src[fp])
         /\ hist' = [UnitDone(hist) EXCEPT
                        !.written = WriteFile(@, copy2_target(bottle, fp),
                                              bottle_src[fp]),
                        !.copied = @ \cup {fp}]
         /\ todo' = todo \ {fp}
         /\ LET total == Cardinality(DOMAIN bottle_src)
                i == total - Cardinality(todo)
            IN  reports' = IF i % 50 = 0
                           THEN overlay_progress(reports, Ratio(i, total))
                           ELSE reports
         /\ pc' = "overlay_python"
         /\ UNCHANGED <<outcome, tmp>>

overlay_python_copy ==
    /\ pc = "copy2"
    /\ \E fp \in {f \in todo : ~is_excluded(f)} : overlay_python_file(fp)
    /\ UNCHANGED <<call, archive_file, archive_path, phase, cancel, data_path,
                   backup, bottle_src, bottle_name, proc>>
    /\ UNCHANGED <<repo_vars, store_vars>>

\* shutil.copy2 fails on a file that is to be copied (disk full, permissions).
overlay_python_fault ==
    /\ pc = "copy2"
    /\ Leave("OSError")
    /\ bottle' = overlay_abandoned(bottle)
    /\ UNCHANGED <<call, archive_file, archive_path, reports, phase, cancel,
                   data_path, backup, bottle_src, bottle_name, todo, proc, hist>>
    /\ UNCHANGED <<repo_vars, store_vars>>

\* update_app_safe after _overlay has returned: the with block is left and
\* "Done" is reported.
overlay_returned(log) ==
    IF call.op = "update" THEN report(log, "Done", ov_hi) ELSE log

\* The loop of _overlay_python ends.
overlay_python_done ==
    /\ pc = "overlay_python"
    /\ todo = {}
    /\ Leave("returned")
    /\ reports' = overlay_returned(reports)
    /\ UNCHANGED <<call, archive_file, archive_path, phase, cancel, data_path,
                   bottle, backup, bottle_src, bottle_name, todo, proc, hist>>
    /\ UNCHANGED <<repo_vars, store_vars>>

\* rsync -a without --delete transfers one file of its list.  A non-directory
\* standing where a source directory goes is removed to make way; a directory
\* standing where a source file goes is kept and the file is skipped with an
\* error (exit code 23).
rsync_file(f) ==
    LET blockers == {SubSeq(f, 1, n) : n \in 1..(Len(f) - 1)} \cap DOMAIN bottle
        cleared == [q \in (DOMAIN bottle) \ blockers |-> bottle[q]]
    IN  IF IsDir(cleared, f)
        THEN /\ bottle' = cleared
             /\ proc' = [proc EXCEPT !.returncode = 23]
             /\ UNCHANGED hist
        ELSE /\ bottle' = WriteFile(cleared, f, bottle_src[f])
             /\ hist' = [UnitDone(hist) EXCEPT
                            !.written = WriteFile(@, f, bottle_src[f]),
                            !.copied = @ \cup {f}]
             /\ UNCHANGED proc

rsync_transfer ==
    /\ pc = "rsync"
    /\ proc.alive
    /\ \E f \in todo : rsync_file(f) /\ todo' = todo \ {f}
    /\ UNCHANGED <<call, archive_file, archive_path, reports, pc, phase,
                   outcome, cancel, tmp, data_path, backup, bottle_src,
                   bottle_name>>
    /\ UNCHANGED <<repo_vars, store_vars>>

\* rsync has gone through its file list and exits.
rsync_exit ==
    /\ pc = "rsync"
    /\ proc.alive
    /\ todo = {}
    /\ proc' = [proc EXCEPT !.alive = FALSE]
    /\ UNCHANGED <<call, archive_file, archive_path, reports, pc, phase,
                   outcome, cancel, tmp, data_path, bottle, backup, bottle_src,
                   bottle_name, todo, hist>>
    /\ UNCHANGED <<repo_vars, store_vars>>

\* rsync dies with an error (usage error, I/O error) at any point.
rsync_abort ==
    /\ pc = "rsync"
    /\ proc.alive
    /\ proc' = [alive |-> FALSE, returncode |-> 1]
    /\ UNCHANGED <<call, archive_file, archive_path, reports, pc, phase,
                   outcome, cancel, tmp, data_path, bottle, backup, bottle_src,
                   bottle_name, todo, hist>>
    /\ UNCHANGED <<repo_vars, store_vars>>

\* One round of the polling loop of _overlay_rsync that leaves the loop: the
\* flag is seen (kill, UpdateCancelled) or proc.wait returns.
overlay_rsync_poll ==
    /\ pc = "rsync"
    /\ check_cancel(cancel) \/ ~proc.alive
    /\ IF check_cancel(cancel)
       THEN /\ proc' = [proc EXCEPT !.alive = FALSE]
            /\ Leave("UpdateCancelled")
            /\ bottle' = overlay_abandoned(bottle)
            /\ UNCHANGED reports
       ELSE /\ proc' = proc
            /\ Leave(IF proc.returncode # 0 THEN "UpdateError" ELSE "returned")
            /\ bottle' = IF proc.returncode # 0
                          THEN overlay_abandoned(bottle) ELSE bottle
            /\ reports' = IF proc.returncode # 0 THEN reports
                          ELSE overlay_returned(reports)
    /\ UNCHANGED <<call, archive_file, archive_path, phase, cancel, data_path,
                   backup, bottle_src, bottle_name, todo, hist>>
    /\ UNCHANGED <<repo_vars, store_vars>>

\* _overlay is called once more with the same source, on the bottle the
\* first call left.
overlay_again ==
    /\ call.op = "overlay"
    /\ pc = "done" /\ outcome = "returned"
    /\ hist.runs = 1
    /\ pc' = "overlay"
    /\ outcome' = "running"
    /\ hist' = [hist EXCEPT !.runs = 2, !.first_result = bottle]
    /\ UNCHANGED <<call, archive_file, archive_path, reports, phase, cancel,
                   tmp, data_path, bottle, backup, bottle_src, bottle_name,
                   todo, proc>>
    /\ UNCHANGED <<repo_vars, store_vars>>

\* The steps of one call of _overlay.
OverlayRun ==
    \/ overlay
    \/ overlay_python_step
    \/ overlay_python_copy
    \/ overlay_python_fault
    \/ overlay_python_done
    \/ rsync_transfer
    \/ rsync_exit
    \/ rsync_abort
    \/ overlay_rsync_poll

OverlayNext ==
    \/ SetCancel
    \/ OverlayRun
    \/ overlay_again

\* ------------------------------------------------ SpecOverlay: _overlay alone
\* Candidate relative paths of the source and destination trees.
OverlayPaths ==
    { <<"app.exe">>,
      <<"x">>, <<"x", "x">>, <<"x", "y">>,
      <<"drive_c", "users", "me", "Documents", "save.dat">>,
      <<"drive_c", "users", "me", "AppData", "Roaming", "cfg">>,
      <<"drive_c", "users", "me", "AppData", "Local", "cfg">>,
      <<"drive_c", "users", "me", "AppData", "LocalLow", "cfg">>,
      <<"user.reg">>,
      <<"sub", "userdef.reg">> }

\* Source paths that vary the letter case of a protected name, the depth at
\* which it occurs, and whether user.reg is a file or a directory.
NamePaths ==
    { <<"app.exe">>,
      <<"drive_c", "users", "me", "Documents", "save.dat">>,
      <<"drive_c", "users", "me", "documents", "save.dat">>,
      <<"sub", "drive_c", "users", "me", "Documents", "save.dat">>,
      <<"user.reg">>,
      <<"user.reg", "x">> }

TreesOver(paths, max, content) ==
    { [p \in S |-> content] :
        S \in {T \in SUBSET paths : Cardinality(T) <= max /\ IsTree(T)} }

Hist0 ==
    [verified |-> FALSE, tmp_created |-> FALSE, extract_created |-> FALSE,
     overlay_begun |-> FALSE, overlay0 |-> EmptyTree, written |-> EmptyTree,
     data_path0 |-> EmptyTree, bottle0 |-> EmptyTree, placed |-> {},
     cancel_in_download |-> FALSE, after_cancel |-> 0,
     seen_in_stream |-> FALSE, dest_created |-> FALSE, dest_left |-> FALSE,
     runs |-> 1, first_result |-> EmptyTree, copied |-> {}, phase_start |-> 0,
     tree0 |-> EmptyTree, found |-> "", backup0 |-> "absent",
     backup_opened |-> FALSE, backup_called |-> FALSE]

InitOverlayOn(srcPaths, dstPaths) ==
    /\ call \in [op : {"overlay"}, archive_uri : {""}, archive_sha256 : {""},
                 archive_size : {0}, arch : {0}, has_backup : {FALSE},
                 rsync : {"yes", "no", "vanished"}]
    /\ pc = "overlay"
    /\ phase = "overlay"
    /\ outcome = "running"
    /\ cancel = FALSE
    /\ tmp = NoTmp
    /\ data_path = EmptyTree
    /\ bottle \in TreesOver(dstPaths, MaxDstFiles, "old")
    /\ backup = "absent"
    /\ bottle_src \in TreesOver(srcPaths, MaxSrcFiles, "new")
    /\ bottle_name = ""
    /\ todo = {}
    /\ proc = NoProc
    /\ archive_file = 0
    /\ archive_path = ""
    /\ reports = << >>
    /\ hist = [Hist0 EXCEPT !.bottle0 = bottle]
    /\ RepoIdle
    /\ StoreIdle

InitOverlay == InitOverlayOn(OverlayPaths, OverlayPaths)

SpecOverlay == InitOverlay /\ [][OverlayNext]_vars

\* _overlay alone, on the source paths of NamePaths.
InitOverlayNames == InitOverlayOn(NamePaths, {<<"app.exe">>})

SpecOverlayNames == InitOverlayNames /\ [][OverlayNext]_vars

\* ---------------------------------------------------- properties of _overlay
\* C2: after overlay-merge, every file that existed in the destination and has
\* no file at the same relative path in the source still exists with
\* unchanged content.
C2_OverlayKeepsDestinationOnlyFiles ==
    (pc = "done" /\ outcome = "returned" /\ hist.overlay_begun) =>
        \A p \in DOMAIN hist.overlay0 :
            p \notin DOMAIN bottle_src =>
                p \in DOMAIN bottle /\ bottle[p] = hist.overlay0[p]

\* The paths C3 names: strictly below drive_c/users/<user>/AppData/Roaming,
\* AppData/Local, AppData/LocalLow or drive_c/users/<user>/Documents, or a
\* file called user.reg or userdef.reg at any depth.
ProtectedPath(p) ==
    \/ p[Len(p)] \in {"user.reg", "userdef.reg"}
    \/ /\ Len(p) > 5
       /\ <<p[1], p[2], p[4]>> = <<"drive_c", "users", "AppData">>
       /\ p[5] \in {"Roaming", "Local", "LocalLow"}
    \/ /\ Len(p) > 4
       /\ <<p[1], p[2], p[4]>> = <<"drive_c", "users", "Documents">>

\* C3: overlay-merge never writes a protected destination path: an existing
\* file there keeps its content, and no file is created there, at every
\* moment of the merge.
C3_ProtectedPathsNeverWritten ==
    hist.overlay_begun =>
        \A p \in (DOMAIN bottle) \cup (DOMAIN hist.overlay0) :
            ProtectedPath(p) =>
                /\ (p \in DOMAIN bottle) = (p \in DOMAIN hist.overlay0)
                /\ p \in DOMAIN bottle => bottle[p] = hist.overlay0[p]

\* C3 witness: a merge has returned after writing a file, with a protected
\* file in the source at the path of a protected file of the destination
\* that holds other content.
C3_Witness ==
    /\ pc = "done" /\ outcome = "returned" /\ hist.overlay_begun
    /\ hist.written # EmptyTree
    /\ \E p \in DOMAIN bottle_src :
           /\ ProtectedPath(p) /\ p \in DOMAIN hist.overlay0
           /\ bottle_src[p] # hist.overlay0[p]

\* ------------------------------------------------------ the call's inputs
\* urlparse(uri).scheme.lower() of the archive locations the model draws.
ArchiveUris ==
    { "/repo/app.tar.gz", "file:///repo/app.tar.gz", "http://host/app.tar.gz",
      "HTTPS://host/app.tar.gz", "smb://host/share/app.tar.gz",
      "nfs://host/app.tar.gz", "ssh://host/app.tar.gz",
      "ftp://host/app.tar.gz" }

UrlScheme(uri) ==
    CASE uri = "/repo/app.tar.gz"            -> ""
      [] uri = "file:///repo/app.tar.gz"     -> "file"
      [] uri = "http://host/app.tar.gz"      -> "http"
      [] uri = "HTTPS://host/app.tar.gz"     -> "https"
      [] uri = "smb://host/share/app.tar.gz" -> "smb"
      [] uri = "nfs://host/app.tar.gz"       -> "nfs"
      [] uri = "ssh://host/app.tar.gz"       -> "ssh"
      [] uri = "ftp://host/app.tar.gz"       -> "ftp"
      [] OTHER                               -> ""

Member(path, content) == [path |-> path, content |-> content]

\* The archives that may stand behind the location; 0 means no file there.
Archives ==
    << \* one top-level directory
       [defect |-> "none", members |->
          << Member(<<"TestBottle", "bottle.yml">>, "yml-v2"),
             Member(<<"TestBottle", "drive_c", "app.exe">>, "exe-v2"),
             Member(<<"TestBottle", "drive_c", "users", "me", "Documents",
                      "save.dat">>, "save-v2") >>],
       \* two top-level directories, one with bottle.yml, and a top-level file
       [defect |-> "none", members |->
          << Member(<<"README">>, "txt"),
             Member(<<"a", "bottle.yml">>, "yml-v2"),
             Member(<<"b", "notes">>, "txt") >>],
       \* two top-level directories, none with bottle.yml
       [defect |-> "none", members |->
          << Member(<<"a", "x">>, "1"), Member(<<"b", "y">>, "2") >>],
       \* no top-level directory
       [defect |-> "none", members |-> << Member(<<"README">>, "txt") >>],
       \* not a gzip file: tarfile.open raises ReadError
       [defect |-> "not_gzip", members |-> << >>],
       \* cut short inside the second member: gzip raises EOFError
       [defect |-> "truncated", members |->
          << Member(<<"TestBottle", "bottle.yml">>, "yml-v2"),
             Member(<<"TestBottle", "drive_c", "app.exe">>, "exe-v2") >>] >>

\* hashlib.sha256(file).hexdigest() of archive a.
Sha256Of(a) == "sha256-of-" \o ToString(a)

WrongDigest == "aaaaaaaa"

EntryId == "test-app"

\* f"{app_id}-{i}"
SuffixedName(app_id, i) == app_id \o "-" \o ToString(i)

CandidateNames ==
    {EntryId} \cup {SuffixedName(EntryId, i) : i \in 2..MaxSuffix}

\* The installed bottle that update_app_safe is pointed at.
InstalledBottle ==
    (<<"drive_c", "app.exe">> :> "exe-v1") @@
    (<<"drive_c", "users", "me", "Documents", "save.dat">> :> "user-save")

PreExisting == (<<"bottle.yml">> :> "other-install")

\* entry.archive_size, in chunks: 0 when unknown, else the true size or a
\* size that is too small.
ArchiveSizes == {0, 1, NChunks}

Digests ==
    {""} \cup {Sha256Of(a) : a \in 1..Len(Archives)} \cup {WrongDigest}

InstallCalls ==
    { c \in [op : {"install"}, archive_uri : ArchiveUris,
             archive_sha256 : Digests, archive_size : ArchiveSizes,
             arch : 0..Len(Archives), has_backup : {FALSE}, rsync : {"no"}] :
        c.archive_sha256 \in {"", Sha256Of(c.arch), WrongDigest} }

UpdateCalls ==
    { c \in [op : {"update"}, archive_uri : ArchiveUris,
             archive_sha256 : Digests, archive_size : ArchiveSizes,
             arch : 0..Len(Archives), has_backup : BOOLEAN,
             rsync : {"yes", "no"}] :
        c.archive_sha256 \in {"", Sha256Of(c.arch), WrongDigest} }

\* The name of the directory backup_bottle is pointed at (bottle_path.name).
BottleDirName == EntryId

\* The bottles backup_bottle is called on: the installed one, one with
\* bottle.yml at its top, and a directory with no regular file in it.
BackupBottles ==
    { InstalledBottle,
      (<<"bottle.yml">> :> "yml-v1") @@ (<<"drive_c", "app.exe">> :> "exe-v1"),
      EmptyTree }

\* backup_bottle called on its own, with a (phase, fraction) callback.
BackupCalls ==
    [op : {"backup"}, archive_uri : {""}, archive_sha256 : {""},
     archive_size : {0}, arch : {0}, has_backup : {TRUE}, rsync : {"no"}]

Init ==
    /\ call \in InstallCalls \cup UpdateCalls \cup BackupCalls
    /\ pc = IF call.op = "backup" THEN "backup" ELSE "start"
    /\ phase = "none"
    /\ outcome = "running"
    /\ cancel \in BOOLEAN
    /\ tmp = NoTmp
    /\ IF call.op = "install"
       THEN /\ data_path \in
                 { [n \in S \cup {"other"} |-> PreExisting] :
                       S \in SUBSET CandidateNames }
            /\ bottle = EmptyTree
       ELSE /\ data_path = EmptyTree
            /\ bottle \in IF call.op = "backup" THEN BackupBottles
                                                ELSE {InstalledBottle}
    \* the path chosen for the backup may name a file that is already there
    /\ backup \in IF call.has_backup THEN {"absent", "old"} ELSE {"absent"}
    /\ bottle_src = EmptyTree
    /\ bottle_name = ""
    /\ todo = {}
    /\ proc = NoProc
    /\ archive_file = call.arch
    /\ archive_path = ""
    /\ reports = << >>
    /\ hist = [Hist0 EXCEPT !.data_path0 = data_path, !.bottle0 = bottle,
                            !.backup0 = backup]
    /\ RepoIdle
    /\ StoreIdle

\* --------------------------------------------------------- raising helpers
Cancelled == IF call.op = "install" THEN "InstallCancelled" ELSE "UpdateCancelled"

\* update_app_safe turns the installer's exceptions into its own where it
\* wraps the installer's functions in try/except.
update_except(exc) ==
    IF call.op = "install" THEN exc
    ELSE CASE exc = "InstallCancelled" -> "UpdateCancelled"
           [] exc = "InstallError"     -> "UpdateError"
           [] OTHER                    -> exc

\* with tempfile.TemporaryDirectory(...) as tmp_str
TemporaryDirectory_enter ==
    [exists |-> TRUE, archive |-> FALSE, chunks |-> 0,
     extract_dir |-> FALSE, extracted |-> EmptyTree]

\* A phase begins with the report that was just appended to log.
PhaseBegins(h, log) == [h EXCEPT !.phase_start = Len(log)]

\* ------------------------------------------------------- install_app begins
\* _check_cancel, the first "Downloading" report and the entry of the with
\* block.
install_app ==
    /\ call.op = "install"
    /\ pc = "start"
    /\ IF check_cancel(cancel)
       THEN /\ LeaveEarly("InstallCancelled")
            /\ UNCHANGED <<phase, reports, hist>>
       ELSE /\ phase' = "download"
            /\ reports' = report(reports, "Downloading", 0)
            /\ tmp' = TemporaryDirectory_enter
            /\ hist' = [PhaseBegins(hist, reports') EXCEPT !.tmp_created = TRUE]
            /\ pc' = "acquire"
            /\ UNCHANGED outcome
    /\ UNCHANGED <<call, archive_file, archive_path, cancel, data_path, bottle,
                   backup, bottle_src, bottle_name, todo, proc>>
    /\ UNCHANGED <<repo_vars, store_vars>>

\* --------------------------------------------------- update_app_safe begins
\* _check_cancel, then the backup phase when a backup path was given,
\* otherwise the entry of the with block and the first "Downloading" report.
update_app_safe ==
    /\ call.op = "update"
    /\ pc = "start"
    /\ IF check_cancel(cancel)
       THEN /\ LeaveEarly("UpdateCancelled")
            /\ UNCHANGED <<phase, reports, hist>>
       ELSE IF call.has_backup
       THEN /\ pc' = "backup"
            /\ UNCHANGED <<phase, outcome, tmp, reports, hist>>
       ELSE /\ phase' = "download"
            /\ reports' = report(reports, "Downloading...", dl_lo(call.has_backup))
            /\ tmp' = TemporaryDirectory_enter
            /\ hist' = [PhaseBegins(hist, reports') EXCEPT !.tmp_created = TRUE]
            /\ pc' = "acquire"
            /\ UNCHANGED outcome
    /\ UNCHANGED <<call, archive_file, archive_path, cancel, data_path, bottle,
                   backup, bottle_src, bottle_name, todo, proc>>
    /\ UNCHANGED <<repo_vars, store_vars>>

\* Mutant: the handlers of backup_bottle leave the file where it is.
dest_path_unlink_skipped(b) == b

\* dest_path.unlink(missing_ok=True) in the two handlers of backup_bottle.
dest_path_unlink(b) == "absent"

\* backup_bottle up to the opening of the tar file: the test of the flag,
\* the "Preparing backup" report, the parent mkdir, the file list.  The
\* callback update_app_safe hands over is _sub(...), a function of the
\* fraction alone: _report calls it with (phase, fraction) and the call
\* raises TypeError.
backup_bottle ==
    /\ pc = "backup"
    /\ IF is_set(cancel)
       THEN /\ LeaveEarly("UpdateCancelled")
            /\ hist' = [hist EXCEPT !.backup_called = TRUE]
            /\ UNCHANGED <<phase, backup, todo, reports>>
       ELSE /\ phase' = "backup"
            /\ IF call.op = "update"
               THEN /\ LeaveEarly("TypeError")
                    /\ hist' = [hist EXCEPT !.backup_called = TRUE]
                    /\ UNCHANGED <<backup, todo, reports>>
               ELSE /\ reports' = report(reports, "Preparing backup...", 0)
                    /\ \/ /\ backup' = "partial"
                          /\ todo' = DOMAIN bottle
                          /\ pc' = "backup_loop"
                          /\ hist' = [PhaseBegins(hist, reports')
                                         EXCEPT !.backup_opened = TRUE,
                                                !.backup_called = TRUE]
                          /\ UNCHANGED <<outcome, tmp>>
                       \/ \* dest_path.parent.mkdir or rglob fails, outside the try
                          /\ LeaveEarly("OSError")
                          /\ hist' = [PhaseBegins(hist, reports')
                                         EXCEPT !.backup_called = TRUE]
                          /\ UNCHANGED <<backup, todo>>
                       \/ \* tarfile.open fails, inside the try
                          /\ backup' = dest_path_unlink(backup)
                          /\ LeaveEarly("UpdateError")
                          /\ hist' = [PhaseBegins(hist, reports')
                                         EXCEPT !.backup_opened = TRUE,
                                                !.backup_called = TRUE]
                          /\ UNCHANGED todo
    /\ UNCHANGED <<call, archive_file, archive_path, cancel, data_path, bottle,
                   bottle_src, bottle_name, proc>>
    /\ UNCHANGED <<repo_vars, store_vars>>

\* The head of one iteration of the loop of backup_bottle, or the end of the
\* loop: the tar file is closed, "Backup complete" is reported.
backup_bottle_loop ==
    /\ pc = "backup_loop"
    /\ IF todo = {}
       THEN \/ /\ backup' = "complete"
               /\ reports' = report(reports, "Backup complete", ov_hi)
               /\ LeaveEarly("returned")
            \/ \* closing the tar file fails
               /\ backup' = dest_path_unlink(backup)
               /\ LeaveEarly("UpdateError")
               /\ UNCHANGED reports
       ELSE IF is_set(cancel)
       THEN /\ backup' = dest_path_unlink(backup)
            /\ LeaveEarly("UpdateCancelled")
            /\ UNCHANGED reports
       ELSE /\ pc' = "tf_add"
            /\ UNCHANGED <<outcome, tmp, backup, reports>>
    /\ UNCHANGED <<call, archive_file, archive_path, phase, cancel, data_path,
                   bottle, bottle_src, bottle_name, todo, proc, hist>>
    /\ UNCHANGED <<repo_vars, store_vars>>

\* The rest of the iteration: tf.add of one file and the report of every
\* 20th file.
tf_add ==
    /\ pc = "tf_add"
    /\ \E fp \in todo :
          \/ /\ todo' = todo \ {fp}
             /\ hist' = UnitDone(hist)
             /\ LET total == Cardinality(DOMAIN bottle)
                    i == total - Cardinality(todo)
                IN  reports' = IF i % 20 = 0
                               THEN report(reports, "Backing up...", Ratio(i, total))
                               ELSE reports
             /\ pc' = "backup_loop"
             /\ UNCHANGED <<outcome, tmp, backup>>
          \/ \* tf.add raises
             /\ backup' = dest_path_unlink(backup)
             /\ LeaveEarly("UpdateError")
             /\ UNCHANGED <<todo, reports, hist>>
    /\ UNCHANGED <<call, archive_file, archive_path, phase, cancel, data_path,
                   bottle, bottle_src, bottle_name, proc>>
    /\ UNCHANGED <<repo_vars, store_vars>>

\* The members of the archive backup_bottle has written: every file added,
\* under the single top-level directory named after the bottle.
backup_archive ==
    LET added == DOMAIN bottle \ todo
    IN  [q \in {<<BottleDirName>> \o fp : fp \in added} |-> bottle[Tail(q)]]

\* ----------------------------------------------------------------- acquire
IsLocal(uri) == UrlScheme(uri) \in {"", "file"}

\* Mutant: every scheme that is not local is streamed.
IsStreamed_any(scheme) == TRUE

\* The schemes _acquire_archive streams to dest: HTTP(S) through urllib,
\* SMB and NFS through the GVFS path or a GIO stream.
IsStreamed(scheme) == scheme \in {"http", "https", "smb", "nfs"}

\* Mutant: the local archive is copied to dest like a remote one.
acquire_local_copy(t) == [t EXCEPT !.archive = TRUE]

\* The temporary directory after a local archive was acquired: the file is
\* used in place and nothing is written.
acquire_local(t) == t

\* Mutant: the partial file is left where it is.
unlink_skipped(t) == t

\* dest.unlink(missing_ok=True)
unlink(t) == [t EXCEPT !.archive = FALSE, !.chunks = 0]

\* The callback _acquire_archive is given, called with the fraction f.
download_progress(log, f) ==
    IF call.op = "install"
    THEN report(log, "Downloading", f)
    ELSE report(log, "Downloading...",
                sub(dl_lo(call.has_backup), dl_hi(call.has_backup), f))

\* install_app reports "Downloading" 1.0 once _acquire_archive has returned.
acquire_returned(log) ==
    IF call.op = "install" THEN report(log, "Downloading", ov_hi) ELSE log

\* _acquire_archive: the dispatch on the scheme, up to the first chunk.
acquire_archive ==
    /\ pc = "acquire"
    /\ LET scheme == UrlScheme(call.archive_uri)
       IN  IF scheme \in {"", "file"}
           THEN \* used in place: progress_cb(1.0), return the path
                /\ tmp' = acquire_local(tmp)
                /\ archive_path' = "original"
                /\ reports' = acquire_returned(download_progress(reports, ov_hi))
                /\ pc' = "verify"
                /\ UNCHANGED <<outcome, todo, hist>>
           ELSE IF IsStreamed(scheme)
           THEN \/ \* the source is opened and dest is created
                   /\ archive_file # 0
                   /\ tmp' = [tmp EXCEPT !.archive = TRUE]
                   /\ hist' = [hist EXCEPT !.dest_created = TRUE]
                   /\ todo' = 1..NChunks
                   /\ pc' = "stream"
                   /\ UNCHANGED <<outcome, archive_path, reports>>
                \/ \* urlopen / open / GIO fails: HTTPError, URLError, OSError,
                   \* GLib.Error, GIO unavailable
                   /\ Leave(update_except("InstallError"))
                   /\ hist' = [hist EXCEPT !.dest_left = unlink(tmp).archive]
                   /\ UNCHANGED <<todo, archive_path, reports>>
                \/ \* _file_stream: src.stat() of a missing file, outside the try
                   /\ scheme \in {"smb", "nfs"}
                   /\ call.archive_size = 0
                   /\ archive_file = 0
                   /\ Leave(update_except("OSError"))
                   /\ UNCHANGED <<todo, archive_path, reports, hist>>
           ELSE /\ Leave(update_except("InstallError"))
                /\ UNCHANGED <<todo, archive_path, reports, hist>>
    /\ UNCHANGED <<call, archive_file, phase, cancel, data_path, bottle, backup,
                   bottle_src, bottle_name, proc>>
    /\ UNCHANGED <<repo_vars, store_vars>>

\* The head of one iteration of the chunk loop of _http_stream, _file_stream
\* or _gio_stream: the test of the flag.
stream_chunk ==
    /\ pc = "stream"
    /\ IF is_set(cancel)
       THEN \* dest.unlink(missing_ok=True); raise
            /\ Leave(update_except("InstallCancelled"))
            /\ hist' = [hist EXCEPT !.dest_left = unlink(tmp).archive,
                                    !.seen_in_stream = TRUE]
       ELSE /\ pc' = "stream_read"
            /\ UNCHANGED <<outcome, tmp, hist>>
    /\ UNCHANGED <<call, archive_file, archive_path, reports, phase, cancel,
                   data_path, bottle, backup, bottle_src, bottle_name, todo,
                   proc>>
    /\ UNCHANGED <<repo_vars, store_vars>>

\* The rest of the iteration: the read, the write and the report, or the
\* empty read that ends the loop.
stream_read ==
    /\ pc = "stream_read"
    /\ \/ /\ todo = {}
          /\ archive_path' = "dest"
          /\ reports' = acquire_returned(reports)
          /\ pc' = "verify"
          /\ UNCHANGED <<outcome, tmp, todo, hist>>
       \/ /\ todo # {}
          /\ tmp' = [tmp EXCEPT !.chunks = @ + 1]
          /\ todo' = todo \ {CHOOSE k \in todo : \A j \in todo : k <= j}
          /\ reports' = IF call.archive_size > 0
                        THEN download_progress(reports,
                                 RatioMin1(tmp.chunks + 1, call.archive_size))
                        ELSE reports
          /\ hist' = UnitDone(hist)
          /\ pc' = "stream"
          /\ UNCHANGED <<outcome, archive_path>>
       \/ \* the read or the write raises: dest.unlink; InstallError
          /\ Leave(update_except("InstallError"))
          /\ hist' = [hist EXCEPT !.dest_left = unlink(tmp).archive]
          /\ UNCHANGED <<todo, archive_path, reports>>
       \/ \* a chunked HTTP response is cut short: resp.read raises
          \* http.client.IncompleteRead, which no except clause catches
          /\ UrlScheme(call.archive_uri) \in {"http", "https"}
          /\ Leave(update_except("IncompleteRead"))
          /\ hist' = [hist EXCEPT !.dest_left = tmp.archive]
          /\ UNCHANGED <<todo, archive_path, reports>>
    /\ UNCHANGED <<call, archive_file, phase, cancel, data_path, bottle, backup,
                   bottle_src, bottle_name, proc>>
    /\ UNCHANGED <<repo_vars, store_vars>>

\* ------------------------------------------------------------------ verify
\* The file behind archive_path can be read.
ArchiveReadable ==
    IF archive_path = "original" THEN archive_file # 0 ELSE tmp.archive

\* The archive that archive_path holds.
Acquired == IF archive_path = "original" THEN archive_file ELSE call.arch

\* Mutant: the digest is computed but not compared.
verify_sha256_unchecked(expected) ==
    IF ~ArchiveReadable THEN "OSError" ELSE ""

\* _verify_sha256: what it raises, "" when the digests are equal.
verify_sha256(expected) ==
    IF ~ArchiveReadable THEN "OSError"
    ELSE IF Sha256Of(Acquired) # expected THEN "InstallError"
    ELSE ""

\* Step 2 of install_app, phase 3 of update_app_safe.  update_app_safe checks
\* the flag before it looks at the hash, install_app after.
verify ==
    /\ pc = "verify"
    /\ IF call.archive_sha256 = ""
       THEN IF call.op = "update" /\ check_cancel(cancel)
            THEN /\ Leave("UpdateCancelled")
                 /\ UNCHANGED <<phase, reports, hist>>
            ELSE /\ pc' = "extract"
                 /\ UNCHANGED <<phase, outcome, tmp, reports, hist>>
       ELSE IF check_cancel(cancel)
       THEN /\ Leave(Cancelled)
            /\ UNCHANGED <<phase, reports, hist>>
       ELSE /\ phase' = "verify"
            /\ reports' = IF call.op = "install"
                          THEN report(reports, "Verifying", 0)
                          ELSE report(reports, "Verifying...",
                                      ver_lo(call.has_backup))
            /\ LET raised == verify_sha256(call.archive_sha256)
               IN  IF raised = ""
                   THEN /\ hist' = [PhaseBegins(hist, reports') EXCEPT
                                       !.verified = TRUE]
                        /\ pc' = "extract"
                        /\ UNCHANGED <<outcome, tmp>>
                   ELSE /\ Leave(update_except(raised))
                        /\ hist' = PhaseBegins(hist, reports')
    /\ UNCHANGED <<call, archive_file, archive_path, cancel, data_path, bottle,
                   backup, bottle_src, bottle_name, todo, proc>>
    /\ UNCHANGED <<repo_vars, store_vars>>

\* ----------------------------------------------------------------- extract
\* The _check_cancel before the extract phase, its first report and
\* extract_dir.mkdir().
extract ==
    /\ pc = "extract"
    /\ IF check_cancel(cancel)
       THEN /\ Leave(Cancelled)
            /\ UNCHANGED <<phase, reports, hist>>
       ELSE /\ phase' = "extract"
            /\ reports' = IF call.op = "install"
                          THEN report(reports, "Installing", 0)
                          ELSE report(reports, "Extracting...",
                                      ext_lo(call.has_backup))
            /\ tmp' = [tmp EXCEPT !.extract_dir = TRUE]
            /\ hist' = [PhaseBegins(hist, reports') EXCEPT
                           !.extract_created = TRUE]
            /\ pc' = "extract_archive"
            /\ UNCHANGED outcome
    /\ UNCHANGED <<call, archive_file, archive_path, cancel, data_path, bottle,
                   backup, bottle_src, bottle_name, todo, proc>>
    /\ UNCHANGED <<repo_vars, store_vars>>

\* _extract_archive up to the loop: _check_cancel, stat, tarfile.open.  Only
\* tarfile.TarError is turned into InstallError.
extract_archive ==
    /\ pc = "extract_archive"
    /\ IF check_cancel(cancel)
       THEN /\ Leave(update_except("InstallCancelled"))
            /\ UNCHANGED todo
       ELSE IF ~ArchiveReadable
       THEN /\ Leave(update_except("OSError"))
            /\ UNCHANGED todo
       ELSE IF Archives[Acquired].defect = "not_gzip"
       THEN /\ Leave(update_except("InstallError"))
            /\ UNCHANGED todo
       ELSE /\ todo' = 1..Len(Archives[Acquired].members)
            /\ pc' = "members"
            /\ UNCHANGED <<outcome, tmp>>
    /\ UNCHANGED <<call, archive_file, archive_path, reports, phase, cancel,
                   data_path, bottle, backup, bottle_src, bottle_name, proc,
                   hist>>
    /\ UNCHANGED <<repo_vars, store_vars>>

\* The head of one iteration of "for member in tf": _check_cancel.
extract_member ==
    /\ pc = "members"
    /\ todo # {}
    /\ IF check_cancel(cancel)
       THEN Leave(update_except("InstallCancelled"))
       ELSE /\ pc' = "tf_extract"
            /\ UNCHANGED <<outcome, tmp>>
    /\ UNCHANGED <<call, archive_file, archive_path, reports, phase, cancel,
                   data_path, bottle, backup, bottle_src, bottle_name, todo,
                   proc, hist>>
    /\ UNCHANGED <<repo_vars, store_vars>>

\* What install_app's callback delivers for the fraction f of the archive
\* consumed; update_app_safe gives _extract_archive no callback.
extract_progress(log, f) ==
    IF call.op = "install"
    THEN report(log, "Installing", sub(0, 700, f))
    ELSE log

\* The rest of the iteration: tf.extract of the member and the report.
tf_extract ==
    /\ pc = "tf_extract"
    /\ LET k == CHOOSE i \in todo : \A j \in todo : i <= j
           a == Archives[Acquired]
       IN  IF a.defect = "truncated" /\ k = Len(a.members)
           THEN /\ Leave(update_except("EOFError"))
                /\ UNCHANGED <<todo, reports, hist>>
           ELSE \/ /\ tmp' = [tmp EXCEPT !.extracted =
                                WriteFile(@, a.members[k].path, a.members[k].content)]
                   /\ todo' = todo \ {k}
                   /\ reports' = extract_progress(reports,
                                                  Ratio(k, Len(a.members)))
                   /\ hist' = UnitDone(hist)
                   /\ pc' = "members"
                   /\ UNCHANGED outcome
                \/ \* tf.extract raises OSError (disk full): not a TarError
                   /\ Leave(update_except("OSError"))
                   /\ UNCHANGED <<todo, reports, hist>>
                \/ \* tf.extract raises a TarError (bad member, filter)
                   /\ Leave(update_except("InstallError"))
                   /\ UNCHANGED <<todo, reports, hist>>
    /\ UNCHANGED <<call, archive_file, archive_path, phase, cancel, data_path,
                   bottle, backup, bottle_src, bottle_name, proc>>
    /\ UNCHANGED <<repo_vars, store_vars>>

\* ---------------------------------------------------------------- identify
TopDirs(t) == {q[1] : q \in {r \in DOMAIN t : Len(r) > 1}}

\* Mutant: among several directories any one is taken.
find_bottle_dir_any(t) ==
    IF TopDirs(t) = {} THEN [ok |-> FALSE, dir |-> ""]
    ELSE [ok |-> TRUE, dir |-> CHOOSE d \in TopDirs(t) : TRUE]

\* _find_bottle_dir: the directory it returns, or ok = FALSE for InstallError.
find_bottle_dir(t) ==
    LET dirs == TopDirs(t)
        with_yml == {d \in dirs : IsFile(t, <<d, "bottle.yml">>)
                                    \/ IsDir(t, <<d, "bottle.yml">>)}
    IN  IF dirs = {} THEN [ok |-> FALSE, dir |-> ""]
        ELSE IF Cardinality(dirs) = 1
        THEN [ok |-> TRUE, dir |-> CHOOSE d \in dirs : TRUE]
        ELSE IF Cardinality(with_yml) = 1
        THEN [ok |-> TRUE, dir |-> CHOOSE d \in with_yml : TRUE]
        ELSE [ok |-> FALSE, dir |-> ""]

\* The member loop ends and the bottle directory is identified, with no
\* cancel test in between.
identify ==
    /\ pc = "members"
    /\ todo = {}
    /\ phase' = "identify"
    /\ LET found == find_bottle_dir(tmp.extracted)
       IN  IF found.ok
           THEN /\ bottle_src' = SubTree(tmp.extracted, <<found.dir>>)
                /\ hist' = [hist EXCEPT !.found = found.dir]
                /\ pc' = IF call.op = "install" THEN "name" ELSE "overlay_gate"
                /\ UNCHANGED <<outcome, tmp>>
           ELSE /\ Leave(update_except("InstallError"))
                /\ UNCHANGED <<bottle_src, hist>>
    /\ UNCHANGED <<call, archive_file, archive_path, reports, cancel,
                   data_path, bottle, backup, bottle_name, todo, proc>>
    /\ UNCHANGED <<repo_vars, store_vars>>

\* ------------------------------------------------------------------ naming
RECURSIVE first_free_suffix(_, _, _)
first_free_suffix(app_id, dp, i) ==
    IF SuffixedName(app_id, i) \in DOMAIN dp
    THEN first_free_suffix(app_id, dp, i + 1)
    ELSE i

\* Mutant: only the suffix 2 is tried.
safe_bottle_name_no_loop(app_id, dp) ==
    IF app_id \notin DOMAIN dp THEN app_id ELSE SuffixedName(app_id, 2)

\* _safe_bottle_name
safe_bottle_name(app_id, dp) ==
    IF app_id \notin DOMAIN dp THEN app_id
    ELSE SuffixedName(app_id, first_free_suffix(app_id, dp, 2))

name ==
    /\ pc = "name"
    /\ bottle_name' = safe_bottle_name(EntryId, data_path)
    /\ pc' = "place"
    /\ UNCHANGED <<call, archive_file, archive_path, reports,
                   phase, outcome, cancel, tmp, data_path, bottle, backup,
                   bottle_src, todo, proc, hist>>
    /\ UNCHANGED <<repo_vars, store_vars>>

\* ------------------------------------------------------------------- place
\* shutil.rmtree(bottle_dest, ignore_errors=True)
rmtree(dp, n) == [m \in (DOMAIN dp) \ {n} |-> dp[m]]

\* Mutant: the partial copy is left in place.
copy_failed_keep(dp) == dp

\* The failure handler of step 6: remove bottle_dest, re-raise.
copy_failed(dp) == rmtree(dp, bottle_name)

\* The _check_cancel before the copy, and copytree creating bottle_dest.
\* copytree refuses a destination that exists.
place ==
    /\ pc = "place"
    /\ IF check_cancel(cancel)
       THEN /\ Leave("InstallCancelled")
            /\ UNCHANGED <<phase, data_path, todo, reports, hist>>
       ELSE /\ phase' = "place"
            /\ reports' = report(reports, "Installing", 700)
            /\ hist' = PhaseBegins(hist, reports')
            /\ IF bottle_name \in DOMAIN data_path
               THEN /\ data_path' = copy_failed(data_path)
                    /\ Leave("OSError")
                    /\ UNCHANGED todo
               ELSE /\ data_path' =
                         [n \in (DOMAIN data_path) \cup {bottle_name} |->
                            IF n = bottle_name THEN EmptyTree ELSE data_path[n]]
                    /\ todo' = DOMAIN bottle_src
                    /\ pc' = "copytree"
                    /\ UNCHANGED <<outcome, tmp>>
    /\ UNCHANGED <<call, archive_file, archive_path, cancel, bottle, backup,
                   bottle_src, bottle_name, proc>>
    /\ UNCHANGED <<repo_vars, store_vars>>

\* Mutant: the file is copied under its base name, without its directories.
copy_file_flat(dp, f) ==
    [dp EXCEPT ![bottle_name] = WriteFile(@, <<f[Len(f)]>>, bottle_src[f])]

\* copytree copies file f of the source into bottle_dest.
copy_file(dp, f) == [dp EXCEPT ![bottle_name] = WriteFile(@, f, bottle_src[f])]

\* copytree copies one more file, fails, or is through; a failure runs the
\* handler and leaves with the copy's own exception.  After the with block
\* install_app reports "Installing" 1.0 and returns.
copytree ==
    /\ pc = "copytree"
    /\ IF todo = {}
       THEN /\ Leave("returned")
            /\ reports' = report(reports, "Installing", ov_hi)
            /\ UNCHANGED <<data_path, todo, hist>>
       ELSE \E f \in todo :
              \/ /\ data_path' = copy_file(data_path, f)
                 /\ hist' = [hist EXCEPT !.placed = @ \cup {f}]
                 /\ todo' = todo \ {f}
                 /\ UNCHANGED <<pc, outcome, tmp, reports>>
              \/ /\ data_path' = copy_failed(data_path)
                 /\ Leave("OSError")
                 /\ UNCHANGED <<todo, reports, hist>>
    /\ UNCHANGED <<call, archive_file, archive_path,
                   phase, cancel, bottle, backup, bottle_src, bottle_name,
                   proc>>
    /\ UNCHANGED <<repo_vars, store_vars>>

\* ------------------------------------------------- update: the overlay phase
\* The _check_cancel before phase 5 and the call of _overlay.
update_overlay ==
    /\ pc = "overlay_gate"
    /\ IF check_cancel(cancel)
       THEN /\ Leave("UpdateCancelled")
            /\ UNCHANGED <<phase, reports, hist>>
       ELSE /\ phase' = "overlay"
            /\ reports' = report(reports, "Updating...", ov_lo(call.has_backup))
            /\ hist' = PhaseBegins(hist, reports')
            /\ pc' = "overlay"
            /\ UNCHANGED <<outcome, tmp>>
    /\ UNCHANGED <<call, archive_file, archive_path, cancel, data_path, bottle,
                   backup, bottle_src, bottle_name, todo, proc>>
    /\ UNCHANGED <<repo_vars, store_vars>>

\* The backup that backup_bottle has written is taken back in: it is
\* extracted into a fresh directory (_extract_archive) and the bottle
\* directory is looked for in it (_find_bottle_dir).
reimport ==
    /\ call.op = "backup"
    /\ pc = "done"
    /\ outcome = "returned"
    /\ backup = "complete"
    /\ pc' = "reimported"
    /\ LET found == find_bottle_dir(backup_archive)
       IN  IF found.ok
           THEN /\ bottle_src' = SubTree(backup_archive, <<found.dir>>)
                /\ hist' = [hist EXCEPT !.found = found.dir,
                                        !.tree0 = backup_archive]
                /\ UNCHANGED outcome
           ELSE /\ outcome' = "InstallError"
                /\ hist' = [hist EXCEPT !.tree0 = backup_archive]
                /\ UNCHANGED bottle_src
    /\ UNCHANGED <<call, archive_file, archive_path, reports, phase, cancel,
                   tmp, data_path, bottle, backup, bottle_name, todo, proc>>
    /\ UNCHANGED <<repo_vars, store_vars>>

Next ==
    \/ SetCancel
    \/ install_app
    \/ update_app_safe
    \/ backup_bottle
    \/ backup_bottle_loop
    \/ tf_add
    \/ reimport
    \/ acquire_archive
    \/ stream_chunk
    \/ stream_read
    \/ verify
    \/ extract
    \/ extract_archive
    \/ extract_member
    \/ tf_extract
    \/ identify
    \/ name
    \/ place
    \/ copytree
    \/ update_overlay
    \/ OverlayRun

Spec == Init /\ [][Next]_vars

\* -------------------------------------- SpecIdentify: _find_bottle_dir alone
\* Candidate paths of the extracted tree: top-level files, directories with
\* and without bottle.yml, and a directory named bottle.yml.
IdentifyPaths ==
    { <<"README">>, <<"bottle.yml">>,
      <<"a", "bottle.yml">>, <<"a", "x">>,
      <<"b", "bottle.yml">>, <<"b", "x">>,
      <<"c", "bottle.yml", "z">>, <<"c", "x">> }

\* A call that has just extracted the last member of its archive.
InitIdentify ==
    /\ call \in {c \in InstallCalls \cup UpdateCalls :
                   /\ c.archive_uri = "/repo/app.tar.gz" /\ c.arch = 1
                   /\ c.archive_sha256 = "" /\ c.archive_size = 0
                   /\ ~c.has_backup /\ c.rsync = "no"}
    /\ pc = "members"
    /\ phase = "extract"
    /\ outcome = "running"
    /\ cancel = FALSE
    /\ tmp \in {[TemporaryDirectory_enter EXCEPT !.extract_dir = TRUE,
                                                !.extracted = t] :
                   t \in TreesOver(IdentifyPaths, Cardinality(IdentifyPaths),
                                   "c")}
    /\ data_path = EmptyTree
    /\ bottle = IF call.op = "install" THEN EmptyTree ELSE InstalledBottle
    /\ backup = "absent"
    /\ bottle_src = EmptyTree
    /\ bottle_name = ""
    /\ todo = {}
    /\ proc = NoProc
    /\ archive_file = call.arch
    /\ archive_path = "original"
    /\ reports = << >>
    /\ hist = [Hist0 EXCEPT !.tmp_created = TRUE, !.extract_created = TRUE,
                            !.tree0 = tmp.extracted, !.bottle0 = bottle]
    /\ RepoIdle
    /\ StoreIdle

SpecIdentify == InitIdentify /\ [][identify]_vars

\* ------------------------------------------------ properties of the pipelines
OwnError == IF call.op = "install" THEN "InstallError" ELSE "UpdateError"

HashMismatch ==
    /\ call.archive_sha256 # ""
    /\ ArchiveReadable
    /\ Sha256Of(call.arch) # call.archive_sha256

\* C1: with a non-empty archive_sha256 the extraction directory is created
\* only after the digest of the acquired file was found equal to it; on a
\* mismatch the call never returns, it ends in its error once verification
\* has run, and the extraction directory is never created.
C1_VerifyBeforeExtract ==
    /\ (call.archive_sha256 # "" /\ hist.extract_created) =>
           /\ hist.verified
           /\ Sha256Of(call.arch) = call.archive_sha256
    /\ HashMismatch =>
           /\ ~hist.extract_created /\ ~tmp.extract_dir
           /\ tmp.extracted = EmptyTree
           /\ outcome # "returned"
           /\ (pc = "done" /\ phase = "verify") => outcome = OwnError

\* C1 witness: a call whose verification ran on a mismatching archive and
\* ended in its error.
C1_Witness ==
    /\ HashMismatch
    /\ pc = "done" /\ phase = "verify" /\ outcome = OwnError
    /\ hist.tmp_created

\* C4: when the call has returned or raised, its temporary directory, with
\* the downloaded archive and the extracted tree, no longer exists.
C4_TmpRemovedOnEveryExit ==
    pc = "done" => tmp = NoTmp

\* C4 witness: a call that created its temporary directory, extracted into
\* it and then left with an exception.
C4_Witness ==
    /\ pc = "done" /\ outcome \notin {"running", "returned"}
    /\ hist.tmp_created /\ hist.extract_created

\* C5: every abnormal end of install_app is InstallCancelled or InstallError,
\* and every abnormal end of update_app_safe is UpdateCancelled or
\* UpdateError.
C5_OnlyOwnExceptions ==
    (pc = "done" /\ call.op \in {"install", "update"}) =>
        outcome \in {"returned", Cancelled, OwnError}

\* C6: _safe_bottle_name returns the id when no entry of that name exists,
\* otherwise id-n for the smallest n >= 2 with no entry id-n; the name it
\* returns is never the name of an existing entry.
C6_SafeBottleName ==
    (call.op = "install" /\ pc = "place") =>
        /\ bottle_name \notin DOMAIN data_path
        /\ EntryId \notin DOMAIN data_path => bottle_name = EntryId
        /\ EntryId \in DOMAIN data_path =>
               \E n \in 2..(Cardinality(DOMAIN data_path) + 2) :
                   /\ bottle_name = SuffixedName(EntryId, n)
                   /\ \A m \in 2..(n - 1) :
                          SuffixedName(EntryId, m) \in DOMAIN data_path

\* C6 witness: the id and id-3 exist, id-2 does not, and id-2 was chosen.
C6_Witness ==
    /\ call.op = "install" /\ pc = "place"
    /\ {EntryId, SuffixedName(EntryId, 3)} \subseteq DOMAIN data_path
    /\ bottle_name = SuffixedName(EntryId, 2)

\* The whole tree the archive unpacks to.
ArchiveTree(a) ==
    LET ms == Archives[a].members
        paths == {ms[i].path : i \in 1..Len(ms)}
    IN  [q \in paths |-> ms[CHOOSE i \in 1..Len(ms) : ms[i].path = q].content]

\* C7: when install_app returns name N, data_path/N holds exactly the tree
\* of the archive's bottle directory, N did not exist before the call, and
\* every entry that existed before the call is unchanged.
C7_InstalledTree ==
    (call.op = "install" /\ pc = "done" /\ outcome = "returned") =>
        /\ bottle_name \in DOMAIN data_path
        /\ bottle_name \notin DOMAIN hist.data_path0
        /\ data_path[bottle_name] =
               SubTree(ArchiveTree(call.arch),
                       <<find_bottle_dir(ArchiveTree(call.arch)).dir>>)
        /\ DOMAIN data_path = (DOMAIN hist.data_path0) \cup {bottle_name}
        /\ \A n \in DOMAIN hist.data_path0 : data_path[n] = hist.data_path0[n]

\* C7 witness: an install that returned id-2 for the archive with two
\* top-level directories.
C7_Witness ==
    /\ call.op = "install" /\ pc = "done" /\ outcome = "returned"
    /\ bottle_name = SuffixedName(EntryId, 2)
    /\ Cardinality(TopDirs(ArchiveTree(call.arch))) = 2

\* C8: when install_app ends abnormally, data_path holds exactly the entries
\* it held before the call.
C8_FailedInstallLeavesNothing ==
    (call.op = "install" /\ pc = "done" /\ outcome # "returned") =>
        data_path = hist.data_path0

\* C8 witness: the copy failed after it had copied a file.
C8_Witness ==
    /\ call.op = "install" /\ pc = "done" /\ outcome # "returned"
    /\ phase = "place" /\ hist.placed # {}

OverlayBrokeOff ==
    /\ call.op = "update" /\ pc = "done" /\ phase = "overlay"
    /\ outcome # "returned"
    /\ hist.written # EmptyTree

\* C9 as claimed: after an overlay that failed or was cancelled with files
\* already copied, the bottle equals its state before the overlay step.
C9_OverlayRolledBack ==
    OverlayBrokeOff => bottle = hist.overlay0

\* C9 as amended: after an overlay that failed or was cancelled, every file
\* the overlay had written is still in the bottle with the content written;
\* only the temporary directory is removed.
C9_WrittenFilesStay ==
    OverlayBrokeOff =>
        /\ \A p \in DOMAIN hist.written :
               p \in DOMAIN bottle /\ bottle[p] = hist.written[p]
        /\ tmp = NoTmp

\* C9 witness: an overlay broke off and left the bottle changed.
C9_Witness ==
    OverlayBrokeOff /\ bottle # hist.overlay0

\* C10 as claimed: with the flag set no further phase starts.
C10_NoPhaseStartsOnceCancelled ==
    [][cancel => phase' = phase]_vars

\* C10 as amended: with the flag set, no phase other than identify starts:
\* backup, download, verify, extract and place/overlay are each preceded by
\* a test of the flag, identify follows the extraction without one.
C10_OnlyIdentifyStartsOnceCancelled ==
    [][cancel => (phase' = phase \/ phase' = "identify")]_vars

\* C10 witness: the flag was seen at a phase boundary after the download:
\* the call ended cancelled with download as the last phase begun.
C10_Witness ==
    /\ pc = "done" /\ outcome = Cancelled
    /\ phase = "download" /\ tmp = NoTmp /\ hist.tmp_created
    /\ IsLocal(call.archive_uri)

HttpUri == UrlScheme(call.archive_uri) \in {"http", "https"}

\* C12 as claimed: when the flag was set while an HTTP(S) download was under
\* way, the call ends cancelled, and no archive file was left at dest.
C12_CancelledDownloadReportsCancelled ==
    (HttpUri /\ hist.cancel_in_download /\ pc = "done") =>
        /\ outcome = Cancelled
        /\ ~hist.dest_left

\* C12 as amended: when the flag was set while an HTTP(S) download was under
\* way, the call never returns: it ends cancelled, or in the failure of the
\* download when opening the URL, the read or the write failed before the
\* flag was next tested, and no archive file remains once it has ended; when
\* the chunk loop has tested the set flag the end is the cancelled one and
\* the loop has removed the file from dest.
C12_CancelledDownloadNeverReturns ==
    /\ (HttpUri /\ hist.cancel_in_download /\ pc = "done") =>
           /\ outcome # "returned"
           /\ outcome # Cancelled => phase = "download"
           /\ ~tmp.archive
    /\ (HttpUri /\ hist.seen_in_stream) =>
           /\ pc = "done" /\ outcome = Cancelled
           /\ ~hist.dest_left

\* C12 witness: the flag was set during the download, a chunk was written,
\* and the chunk loop then saw the flag.
C12_Witness ==
    /\ HttpUri /\ hist.cancel_in_download /\ hist.seen_in_stream
    /\ hist.dest_created /\ hist.after_cancel = 1
    /\ pc = "done" /\ outcome = Cancelled

\* ------------------------------------------------------------ identification
Dirs(t) == {q[1] : q \in {r \in DOMAIN t : Len(r) >= 2}}

WithManifest(t) ==
    {d \in Dirs(t) :
        \E q \in DOMAIN t : Len(q) >= 2 /\ q[1] = d /\ q[2] = "bottle.yml"}

\* C13: identification returns the single top-level directory when there is
\* exactly one; with two or more it returns the one that contains bottle.yml
\* when exactly one does; in every other case it fails with InstallError.
C13_FindBottleDir ==
    pc # "members" =>
        LET dirs == Dirs(hist.tree0)
            yml == WithManifest(hist.tree0)
        IN  IF Cardinality(dirs) = 1
            THEN /\ outcome = "running"
                 /\ hist.found \in dirs
                 /\ bottle_src = SubTree(hist.tree0, <<hist.found>>)
            ELSE IF Cardinality(dirs) >= 2 /\ Cardinality(yml) = 1
            THEN /\ outcome = "running"
                 /\ hist.found \in yml
                 /\ bottle_src = SubTree(hist.tree0, <<hist.found>>)
            ELSE /\ pc = "done"
                 /\ outcome = OwnError

\* C13 witness: three top-level directories and two top-level files, one
\* directory with bottle.yml, and that directory was returned.
C13_Witness ==
    /\ pc # "members" /\ outcome = "running"
    /\ Cardinality(Dirs(hist.tree0)) = 3
    /\ {<<"README">>, <<"bottle.yml">>} \subseteq DOMAIN hist.tree0
    /\ WithManifest(hist.tree0) = {hist.found}

\* ------------------------------------------------------------------- acquire
\* The call did not get past the dispatch of _acquire_archive: nothing was
\* created at dest, no path was returned, and the call ended in its error
\* during the download phase.
Rejected ==
    /\ ~hist.dest_created /\ ~tmp.archive
    /\ archive_path = ""
    /\ pc \notin {"stream", "stream_read"}
    /\ (pc = "done" /\ hist.tmp_created) =>
           (outcome = OwnError /\ phase = "download")

C15_LocalArchiveUsedInPlace ==
    (IsLocal(call.archive_uri) /\ call.op \in {"install", "update"}) =>
        /\ ~tmp.archive /\ ~hist.dest_created
        /\ archive_path \in {"", "original"}
        /\ (pc \in {"verify", "extract", "extract_archive", "members",
                    "tf_extract"}) => archive_path = "original"
        /\ archive_file = call.arch

\* C15 witness: a call on an existing local archive that extracted from it
\* and then ended abnormally.
C15_Witness ==
    /\ IsLocal(call.archive_uri) /\ call.arch # 0
    /\ archive_path = "original"
    /\ pc = "done" /\ outcome # "returned"
    /\ hist.extract_created

\* ------------------------------------------------------------------- overlay
\* C16: during and after a second overlay with the same source onto the
\* result of the first, the destination is in the state the first produced.
C16_OverlayIdempotent ==
    (call.op = "overlay" /\ hist.runs = 2) => bottle = hist.first_result

\* C16 witness: the second overlay has returned, and the overlay had changed
\* the destination.
C16_Witness ==
    /\ call.op = "overlay" /\ hist.runs = 2
    /\ pc = "done" /\ outcome = "returned"
    /\ hist.copied # {}
    /\ bottle # hist.bottle0

\* C17: the files a completed overlay copied through rsync are the files the
\* Python rule does not exclude, and the files it copied through the Python
\* fallback are the files the rsync patterns do not exclude.
C17_SameClassification ==
    (call.op = "overlay" /\ hist.runs = 1 /\ pc = "done"
        /\ outcome = "returned") =>
        \A f \in DOMAIN bottle_src :
            (f \in hist.copied) =
                IF call.rsync = "yes" THEN ~is_excluded(f)
                ELSE ~RsyncExcluded(f)

\* ----------------------------------------------------------- update, backup
ValidCall ==
    /\ call.arch = 1
    /\ call.archive_sha256 \in {"", Sha256Of(1)}
    /\ UrlScheme(call.archive_uri) \in {"", "file", "http", "https", "smb"}

\* C18: an update with a backup path has completed its backup before the
\* download begins, and with a valid archive, the flag never set and no I/O
\* fault it returns.
C18_BackupThenUpdateSucceeds ==
    (call.op = "update" /\ call.has_backup) =>
        /\ hist.tmp_created => backup = "complete"
        /\ (pc = "done" /\ ~cancel /\ ValidCall
               /\ outcome \notin {"OSError", "EOFError", "UpdateError"}) =>
               (outcome = "returned" /\ backup = "complete")

\* ------------------------------------------------------------------ progress
ReportedPhases == {"backup", "download", "verify", "extract", "place", "overlay"}

\* The last report is under the name of the current phase and is not the
\* report the phase began with.
EndReported(log) ==
    /\ Len(log) > hist.phase_start
    /\ log[Len(log)][1] = PhaseName(call.op, phase)

\* C19: a phase of install_app or update_app_safe begins with a report
\* under its name, and when it ends (the next phase begins, or the call
\* returns) a further report under its name has been made.
C19_ReportsAtStartAndEnd ==
    [][call.op \in {"install", "update"} =>
          /\ (phase' # phase /\ phase' \in ReportedPhases) =>
                 /\ Len(reports') > Len(reports)
                 /\ reports'[Len(reports')][1] = PhaseName(call.op, phase')
          /\ (phase' # phase /\ phase \in ReportedPhases) =>
                 EndReported(reports)
          /\ (phase \in ReportedPhases /\ pc # "done" /\ pc' = "done"
                 /\ outcome' = "returned") => EndReported(reports')]_vars

\* The range of fractions update_app_safe gives the reports of each name.
RangeOf(phase_name, has_backup) ==
    CASE phase_name = "Downloading..." ->
             <<dl_lo(has_backup), dl_hi(has_backup)>>
      [] phase_name = "Verifying..."   ->
             <<ver_lo(has_backup), ver_hi(has_backup)>>
      [] phase_name = "Extracting..."  ->
             <<ext_lo(has_backup), ext_hi(has_backup)>>
      [] phase_name = "Updating..."    -> <<ov_lo(has_backup), ov_hi>>
      [] phase_name = "Done"           -> <<ov_hi, ov_hi>>
      [] OTHER                         -> <<0, 200>>

\* C20: in update_app_safe the fractions reported never decrease, each lies
\* in the range of its phase, the ranges follow each other in phase order
\* without overlap, and a call that returns has reported 1.0 last.
C20_OneSweep ==
    call.op = "update" =>
        /\ \A i \in 1..Len(reports) : \A j \in i..Len(reports) :
               reports[i][2] <= reports[j][2]
        /\ \A i \in 1..Len(reports) :
               LET r == RangeOf(reports[i][1], call.has_backup)
               IN  r[1] <= reports[i][2] /\ reports[i][2] <= r[2]
        /\ \A b \in BOOLEAN :
               /\ (IF b THEN 200 ELSE 0) <= dl_lo(b)
               /\ dl_lo(b) < dl_hi(b) /\ dl_hi(b) <= ver_lo(b)
               /\ ver_lo(b) < ver_hi(b) /\ ver_hi(b) <= ext_lo(b)
               /\ ext_lo(b) < ext_hi(b) /\ ext_hi(b) <= ov_lo(b)
               /\ ov_lo(b) < ov_hi
        /\ (pc = "done" /\ outcome = "returned") =>
               /\ reports # << >>
               /\ reports[Len(reports)][2] = ov_hi

\* C20 witness: an update that streamed its archive with a known size,
\* verified it, copied through the Python fallback and returned.
C20_Witness ==
    /\ call.op = "update" /\ pc = "done" /\ outcome = "returned"
    /\ HttpUri /\ call.archive_size > 0 /\ call.archive_sha256 # ""
    /\ call.rsync = "no"
    /\ Len(reports) >= 8

\* -------------------------------------------------------- fractions in [0, 1]
\* C21: every fraction reported by install_app, update_app_safe and
\* backup_bottle lies in [0, 1]; in install_app "Downloading" 1.0 has been
\* reported before the first "Installing" report, and a call that returns has
\* reported "Installing" 1.0 last.
C21_FractionsInUnitInterval ==
    call.op \in {"install", "update", "backup"} =>
        /\ \A i \in 1..Len(reports) :
               0 <= reports[i][2] /\ reports[i][2] <= ov_hi
        /\ call.op = "install" =>
               /\ \A i \in 1..Len(reports) :
                      reports[i][1] = "Installing" =>
                          \E j \in 1..(i - 1) :
                              reports[j] = <<"Downloading", ov_hi>>
               /\ (pc = "done" /\ outcome = "returned") =>
                      /\ reports # << >>
                      /\ reports[Len(reports)] = <<"Installing", ov_hi>>

\* C21 witness: an install that streamed an archive larger than the size
\* the entry states, reported the capped fraction, and returned.
C21_Witness ==
    /\ call.op = "install" /\ pc = "done" /\ outcome = "returned"
    /\ HttpUri /\ call.archive_size > 0 /\ call.archive_size < NChunks
    /\ \E i \in 1..Len(reports) : \E j \in (i + 1)..Len(reports) :
           /\ reports[i] = <<"Downloading", ov_hi>>
           /\ reports[j] = <<"Downloading", ov_hi>>
           /\ j + 1 <= Len(reports) /\ reports[j + 1][1] # "Downloading"

\* -------------------------------------------------------------------- backup
\* C22: the archive backup_bottle has written, extracted and identified,
\* yields one top-level directory, named after the bottle, with the files of
\* the bottle.
C22_BackupReimportable ==
    pc = "reimported" =>
        /\ outcome = "returned"
        /\ TopDirs(hist.tree0) = {BottleDirName}
        /\ \A q \in DOMAIN hist.tree0 : Len(q) > 1
        /\ hist.found = BottleDirName
        /\ bottle_src = bottle

\* backup_bottle was called and was cancelled or failed.
BackupBrokeOff ==
    /\ hist.backup_called
    /\ pc = "done"
    /\ outcome # "returned"

\* C23 as claimed: after backup_bottle was cancelled or failed no file is at
\* the backup path, the bottle is as it was, and update_app_safe has not
\* gone on to its temporary directory and the download.
C23_NoFileAtBackupPath ==
    BackupBrokeOff =>
        /\ backup = "absent"
        /\ bottle = hist.bottle0
        /\ ~hist.tmp_created /\ archive_path = ""

\* C23 as amended: no partly written backup remains.  Once dest was opened
\* for writing the file at the backup path is removed, a file that was there
\* before the call included; when the call ends before that, the path is as
\* it was before the call.  The bottle is as it was and update_app_safe has
\* not gone on.
C23_NoPartialBackup ==
    BackupBrokeOff =>
        /\ backup = IF hist.backup_opened THEN "absent" ELSE hist.backup0
        /\ bottle = hist.bottle0
        /\ ~hist.tmp_created /\ archive_path = ""

\* C23 witness: a backup over a file that was already at the path, cancelled
\* in its loop after a file had been added.
C23_Witness ==
    /\ BackupBrokeOff /\ outcome = "UpdateCancelled"
    /\ hist.backup0 = "old" /\ hist.backup_opened
    /\ todo # {} /\ todo # DOMAIN bottle
    /\ backup = "absent"

\* ============================================================ repositories
\* The number of calls made on one Repo object after its construction.
MaxCalls == 3

\* A repository URI as urlparse splits it: the scheme as written, hostname,
\* port as written, and the segments of the path.
NoPort == [text |-> "", digits |-> TRUE, value |-> 0]
Port2222 == [text |-> "2222", digits |-> TRUE, value |-> 2222]
PortTooBig == [text |-> "99999", digits |-> TRUE, value |-> 99999]
PortAbc == [text |-> "abc", digits |-> FALSE, value |-> 0]

Uri(scheme, host, port, path) ==
    [scheme |-> scheme, host |-> host, port |-> port, path |-> path]

\* The directories that exist on the local filesystem.
LocalDirs == {<<"srv", "repo">>}

RepoUris ==
    { Uri("", "", NoPort, <<"srv", "repo">>),
      Uri("", "", NoPort, <<"srv", "missing">>),
      Uri("file", "", NoPort, <<"srv", "repo">>),
      Uri("file", "", NoPort, <<"srv", "missing">>),
      Uri("http", "host", NoPort, <<"repo">>),
      Uri("HTTPS", "host", NoPort, <<"repo">>),
      Uri("http", "host", PortAbc, <<"repo">>),
      Uri("ssh", "host", NoPort, <<"repo">>),
      Uri("ssh", "host", Port2222, <<"repo">>),
      Uri("ssh", "", NoPort, <<"repo">>),
      Uri("ssh", "host", PortAbc, <<"repo">>),
      Uri("smb", "host", NoPort, <<"share", "repo">>),
      Uri("smb", "host", NoPort, << >>),
      Uri("smb", "", NoPort, <<"share">>),
      Uri("smb", "host", PortAbc, << >>),
      Uri("smb", "host", PortTooBig, <<"share">>),
      Uri("nfs", "host", NoPort, <<"export">>),
      Uri("ftp", "host", NoPort, <<"pub">>) }

\* urlparse(uri).scheme.lower()
scheme_of(u) == Lower(u.scheme)

\* parsed.port: None when no port is written, ValueError when it is not a
\* decimal number or is out of range.
port_raises(u) ==
    /\ u.port.text # ""
    /\ (~u.port.digits \/ u.port.value > 65535)

Made(kind) == [exc |-> "", kind |-> kind]
Raised(exc) == [exc |-> exc, kind |-> "none"]

\* _make_fetcher, with _SmbclientFetcher.__init__: the fetcher variant, or
\* the exception that leaves it.
make_fetcher(u) ==
    LET scheme == scheme_of(u)
    IN  IF scheme \in {"", "file"}
        THEN IF u.path \in LocalDirs THEN Made("local")
                                     ELSE Raised("RepoError")
        ELSE IF scheme \in {"http", "https"} THEN Made("http")
        ELSE IF scheme = "ssh"
        THEN IF u.host = "" THEN Raised("RepoError")
             ELSE IF port_raises(u) THEN Raised("ValueError")
             ELSE Made("ssh")
        ELSE IF scheme = "smb"
        THEN IF u.host = "" THEN Raised("RepoError")
             ELSE IF u.path = << >> THEN Raised("RepoError")
             ELSE IF port_raises(u) THEN Raised("ValueError")
             ELSE Made("smb")
        ELSE Raised("RepoError")

\* Mutant: SMB repositories count as read-only, as HTTP(S) ones do.
is_writable_smb_read_only(u) == scheme_of(u) \notin {"http", "https", "smb"}

\* Repo.is_writable
is_writable(u) == scheme_of(u) \notin {"http", "https"}

\* ----------------------------------------------------------- relative paths
\* A repo-relative path: whether it is written with a leading "/", its
\* directories, and the stem and suffix of its last segment (Path.suffix).
Rel(abs, parts, stem, suffix) ==
    [abs |-> abs, parts |-> parts, stem |-> stem, suffix |-> suffix]

EmptyRel == Rel(FALSE, << >>, "", "")

RelPaths ==
    { Rel(FALSE, <<"icons">>, "a", ".png"),
      Rel(TRUE, <<"icons">>, "a", ".png"),
      Rel(FALSE, <<"shots">>, "b", ".JPG"),
      Rel(FALSE, <<"apps">>, "x.tar", ".gz"),
      EmptyRel }

\* rel_path.lstrip("/")
lstrip(rel) == [rel EXCEPT !.abs = FALSE]

_IMAGE_EXTENSIONS ==
    {".png", ".jpg", ".jpeg", ".gif", ".webp", ".svg", ".avif", ".ico"}

\* The files the repository holds.
RemoteFiles ==
    { Rel(FALSE, <<"icons">>, "a", ".png"),
      Rel(FALSE, <<"apps">>, "x.tar", ".gz") }

\* How fetch_bytes of the given fetcher can end for a path: with the bytes
\* of a file that is there, with RepoError (file missing, I/O error, HTTP
\* status, URLError, timeout or non-zero exit of the client, missing
\* client), and for _HttpFetcher with what urlopen and resp.read() raise
\* apart from URLError: http.client.HTTPException (IncompleteRead,
\* BadStatusLine) and ConnectionResetError (RemoteDisconnected).
fetch_bytes_ends(kind, rel) ==
    (IF lstrip(rel) \in RemoteFiles THEN {"bytes"} ELSE {})
        \cup {"RepoError"}
        \cup (IF kind = "http" THEN {"HTTPException", "ConnectionResetError"}
                               ELSE {})

\* _Fetcher.resolve_uri: the base of the fetcher joined with the path.
resolve_uri(kind, u, rel) == [base |-> u, rel |-> lstrip(rel)]

\* Mutant: every fetcher's images are cached.
caches_assets_all(kind) == TRUE

\* isinstance(self._fetcher, (_HttpFetcher, _SmbclientFetcher))
caches_assets(kind) == kind \in {"http", "smb"}

\* Whether resolve_asset_uri goes to _fetch_to_cache.
to_cache(kind, rel) ==
    /\ rel # EmptyRel
    /\ caches_assets(kind)
    /\ Lower(rel.suffix) \in _IMAGE_EXTENSIONS

Count(f, k) == IF k \in DOMAIN f THEN f[k] ELSE 0

\* One more call on the Repo.
Called(h) == [h EXCEPT !.calls = @ + 1]

Ready == repo.state = "ready" /\ rhist.calls < MaxCalls

\* ------------------------------------------------------ requests and paths
\* The token and the trust settings a Repo can be given: ssl_verify=True
\* without ca_cert, a ca_cert, or ssl_verify=False.
Tokens == {"", "secret"}
SslSettings == {"default", "ca_cert", "no_verify"}

\* A GET request: the bearer token of its Authorization header ("" without
\* the header) and the SSL context it is made with.
Request(authorization, context) ==
    [authorization |-> authorization, context |-> context]

NoRequest == Request("none", "none")

\* The request of _HttpFetcher.fetch_bytes.
fetcher_request(r) == Request(r.token, r.ssl)

\* The request of _http_stream: urlopen(url, timeout=30).
http_stream_request(r) == Request("", "default")

\* The scheme of what resolve_uri returns: a path for a local repository,
\* else the repository's URI with the path appended.
location_scheme(kind, u) == IF kind = "local" THEN "" ELSE scheme_of(u)

\* Variant: every scheme is taken.
acquire_accepts_all(scheme) == TRUE

\* The schemes _acquire_archive has a branch for.
acquire_accepts(scheme) == scheme \in {"", "file"} \/ IsStreamed(scheme)

\* The paths of archives in a catalogue.
ArchivePaths ==
    {rel \in RelPaths \ {EmptyRel} :
        Lower(rel.suffix) \notin _IMAGE_EXTENSIONS}

\* How _smb_writable_path can end: with the FUSE path of the mounted
\* share, or with RepoError (no GIO, mount failed, no FUSE path).
smb_writable_ends == {"path", "RepoError"}

\* Repo.writable_path
writable_path ==
    /\ Ready
    /\ \E rel \in RelPaths :
          \/ /\ repo.fetcher = "local"
             /\ answer' = [op |-> "writable_path", arg |-> rel,
                           kind |-> "path", why |-> ""]
          \/ /\ repo.fetcher = "smb"
             /\ \E end \in smb_writable_ends :
                   answer' = [op |-> "writable_path", arg |-> rel,
                              kind |-> end,
                              why |-> IF end = "path" THEN "" ELSE "mount"]
          \/ /\ repo.fetcher \notin {"local", "smb"}
             /\ answer' = [op |-> "writable_path", arg |-> rel,
                           kind |-> "RepoError", why |-> "no local write"]
    /\ rhist' = Called(rhist)
    /\ UNCHANGED <<repo, catalogues, pipeline_vars, store_vars>>

\* _acquire_archive(repo.resolve_asset_uri(entry.archive), ...) as far as
\* the choice of the branch and, for HTTP(S), the request of _http_stream.
acquire_from_repo ==
    /\ Ready
    /\ \E rel \in ArchivePaths :
          LET scheme == location_scheme(repo.fetcher, repo.uri)
          IN  answer' =
                 [op |-> "acquire", arg |-> rel, scheme |-> scheme,
                  kind |-> IF acquire_accepts(scheme) THEN "accepted"
                                                     ELSE "InstallError",
                  request |-> IF scheme \in {"http", "https"}
                              THEN http_stream_request(repo) ELSE NoRequest]
    /\ rhist' = Called(rhist)
    /\ UNCHANGED <<repo, catalogues, pipeline_vars, store_vars>>

\* ------------------------------------------------------------- Repo actions
\* Repo(uri): the attributes are set and _make_fetcher selects the fetcher
\* or raises.
Repo_init ==
    /\ repo.state = "new"
    /\ LET made == make_fetcher(repo.uri)
       IN  /\ repo' = IF made.exc = ""
                      THEN [repo EXCEPT !.state = "ready",
                                        !.fetcher = made.kind]
                      ELSE [repo EXCEPT !.state = "failed"]
           /\ answer' = [op |-> "Repo",
                         kind |-> IF made.exc = "" THEN "ok" ELSE made.exc]
           /\ rhist' = [rhist EXCEPT !.fetcher0 = made.kind]
    /\ UNCHANGED <<catalogues, pipeline_vars, store_vars>>

\* repo.is_writable
Repo_is_writable ==
    /\ Ready
    /\ answer' = [op |-> "is_writable", kind |-> "bool",
                  value |-> is_writable(repo.uri)]
    /\ rhist' = Called(rhist)
    /\ UNCHANGED <<repo, catalogues, pipeline_vars, store_vars>>

\* repo._fetcher.fetch_bytes(rel_path)
fetch_bytes ==
    /\ Ready
    /\ \E rel \in RelPaths \ {EmptyRel} :
       \E end \in fetch_bytes_ends(repo.fetcher, rel) :
          answer' = [op |-> "fetch_bytes", arg |-> rel, kind |-> end,
                     value |-> IF end = "bytes" THEN lstrip(rel) ELSE EmptyRel,
                     request |-> IF repo.fetcher = "http"
                                 THEN fetcher_request(repo) ELSE NoRequest]
    /\ rhist' = Called(rhist)
    /\ UNCHANGED <<repo, catalogues, pipeline_vars, store_vars>>

\* repo.resolve_asset_uri(repo_relative), with _fetch_to_cache
resolve_asset_uri ==
    /\ Ready
    /\ \E rel \in RelPaths :
          IF to_cache(repo.fetcher, rel)
          THEN LET dest == lstrip(rel)
               IN  IF dest \in DOMAIN repo.asset_cache
                   THEN \* dest.exists(): the path is returned as it is
                        /\ answer' = [op |-> "resolve_asset_uri", arg |-> rel,
                                      kind |-> "path", value |-> dest,
                                      fetched |-> FALSE]
                        /\ rhist' = Called(rhist)
                        /\ UNCHANGED repo
                   ELSE \E end \in fetch_bytes_ends(repo.fetcher, rel) :
                        IF end = "bytes"
                        THEN \/ \* the bytes are written to dest
                                /\ repo' = [repo EXCEPT !.asset_cache =
                                               (dest :> "full") @@ @]
                                /\ answer' = [op |-> "resolve_asset_uri",
                                              arg |-> rel, kind |-> "path",
                                              value |-> dest, fetched |-> TRUE]
                                /\ rhist' = [Called(rhist) EXCEPT !.fetched =
                                    (dest :> Count(@, dest) + 1) @@ @]
                             \/ \* write_bytes fails when dest has been
                                \* created: OSError, which is not caught
                                /\ repo' = [repo EXCEPT !.asset_cache =
                                               (dest :> "partial") @@ @]
                                /\ answer' = [op |-> "resolve_asset_uri",
                                              arg |-> rel, kind |-> "OSError",
                                              value |-> EmptyRel,
                                              fetched |-> TRUE]
                                /\ rhist' = [Called(rhist) EXCEPT !.fetched =
                                    (dest :> Count(@, dest) + 1) @@ @]
                        ELSE /\ answer' = [op |-> "resolve_asset_uri",
                                           arg |-> rel,
                                           kind |-> IF end = "RepoError"
                                                    THEN "empty" ELSE end,
                                           value |-> EmptyRel,
                                           fetched |-> TRUE]
                             /\ rhist' = Called(rhist)
                             /\ UNCHANGED repo
          ELSE /\ answer' = [op |-> "resolve_asset_uri", arg |-> rel,
                             kind |-> "uri",
                             value |-> resolve_uri(repo.fetcher, repo.uri, rel),
                             fetched |-> FALSE]
               /\ rhist' = Called(rhist)
               /\ UNCHANGED repo
    /\ UNCHANGED <<catalogues, pipeline_vars, store_vars>>

\* The pipeline variables in the specifications of the repositories, which
\* run no pipeline.
PipelineIdle ==
    /\ call = [op |-> "none", archive_uri |-> "", archive_sha256 |-> "",
               archive_size |-> 0, arch |-> 0, has_backup |-> FALSE,
               rsync |-> "no"]
    /\ pc = "done"
    /\ phase = "none"
    /\ outcome = "running"
    /\ cancel = FALSE
    /\ tmp = NoTmp
    /\ data_path = EmptyTree
    /\ bottle = EmptyTree
    /\ backup = "absent"
    /\ bottle_src = EmptyTree
    /\ bottle_name = ""
    /\ todo = {}
    /\ proc = NoProc
    /\ archive_file = 0
    /\ archive_path = ""
    /\ reports = << >>
    /\ hist = Hist0

InitRepo ==
    /\ PipelineIdle
    /\ StoreIdle
    /\ repo \in {[NoRepo EXCEPT !.uri = u, !.token = t, !.ssl = c] :
                    u \in RepoUris, t \in Tokens, c \in SslSettings}
    /\ catalogues = << >>
    /\ answer = NoAnswer
    /\ rhist = RHist0

RepoNext ==
    \/ Repo_init
    \/ Repo_is_writable
    \/ fetch_bytes
    \/ resolve_asset_uri
    \/ writable_path
    \/ acquire_from_repo

SpecRepo == InitRepo /\ [][RepoNext]_vars

C25_ConstructedOrRepoError ==
    /\ answer.op = "Repo" => answer.kind \in {"ok", "RepoError"}
    /\ repo.state = "ready" =>
          /\ repo.fetcher \in {"local", "http", "ssh", "smb"}
          /\ repo.fetcher = rhist.fetcher0

\* The last call was resolve_asset_uri.
Resolved == repo.state = "ready" /\ answer.op = "resolve_asset_uri"

\* The path of the last call is an image by its extension.
ImageAsked == Lower(answer.arg.suffix) \in _IMAGE_EXTENSIONS

\* C28: on an HTTP(S) repository an image is downloaded at most once, a
\* call for an image ends with the path of the cached file or with "", and
\* the cache holds only complete downloads.
C28_ImageCachedOnce ==
    repo.fetcher = "http" =>
        /\ \A dest \in DOMAIN rhist.fetched : rhist.fetched[dest] <= 1
        /\ \A dest \in DOMAIN repo.asset_cache :
              repo.asset_cache[dest] = "full"
        /\ (Resolved /\ ImageAsked) =>
              /\ answer.kind \in {"path", "empty"}
              /\ answer.kind = "path" =>
                    /\ answer.value = lstrip(answer.arg)
                    /\ answer.value \in DOMAIN repo.asset_cache
              /\ answer.kind = "empty" =>
                    lstrip(answer.arg) \notin DOMAIN repo.asset_cache

\* C29 as claimed: only an HTTP(S) repository fetches, and only images; every
\* other call makes no fetch and returns the URI of the fetcher.
C29_OnlyHttpImagesCached ==
    Resolved =>
        IF repo.fetcher = "http" /\ ImageAsked
        THEN answer.kind # "uri"
        ELSE /\ ~answer.fetched
             /\ answer.kind = "uri"
             /\ answer.value = resolve_uri(repo.fetcher, repo.uri, answer.arg)

\* C29: an HTTP(S) or SMB repository fetches images into the cache; every
\* other call (local or SSH repository, path without image extension, empty
\* path) makes no fetch and returns the URI of the fetcher.
C29_OnlyHttpSmbImagesCached ==
    Resolved =>
        IF repo.fetcher \in {"http", "smb"} /\ ImageAsked
        THEN answer.kind # "uri"
        ELSE /\ ~answer.fetched
             /\ answer.kind = "uri"
             /\ answer.value = resolve_uri(repo.fetcher, repo.uri, answer.arg)
             /\ repo.fetcher \in {"local", "ssh"} => repo.asset_cache = << >>

C29_Witness ==
    /\ Resolved
    /\ repo.fetcher = "smb"
    /\ ImageAsked
    /\ answer.fetched
    /\ answer.kind = "path"
    /\ rhist.calls = MaxCalls
    /\ \E rel \in RelPaths : resolve_uri("smb", repo.uri, rel) # answer.value

\* C30: fetch_bytes returns the bytes or raises RepoError, and leaves the
\* fetcher as it was constructed.
C30_BytesOrRepoError ==
    (repo.state = "ready" /\ answer.op = "fetch_bytes") =>
        /\ answer.kind \in {"bytes", "RepoError"}
        /\ repo.fetcher = rhist.fetcher0

\* ============================================================== catalogues
\* The longest catalogue of a single repository, the longest catalogue of a
\* repository of the manager, and the most repositories of the manager.
MaxItems == 2
MaxRepoItems == 2
MaxRepos == 2

\* A JSON value: its type and what distinguishes it within the type.
J(t, v) == [t |-> t, v |-> v]
Absent == J("absent", "")
Null == J("null", "")
Str(v) == J("string", v)
Num(v) == J("number", v)
Arr(v) == J("array", v)
Obj(v) == J("object", v)

\* bool(value): empty containers, the empty string, 0 and null are false.
Truthy(j) ==
    CASE j.t \in {"absent", "null"} -> FALSE
      [] j.t = "number" -> j.v # "0"
      [] OTHER -> j.v # ""

\* The strings int() parses.
Decimals == {"0", "5", "12"}

\* The exception int(value) raises, "" when it returns.
int_raises(j) ==
    CASE j.t = "number" -> ""
      [] j.t = "string" -> IF j.v \in Decimals THEN "" ELSE "ValueError"
      [] OTHER -> "TypeError"

\* The exception tuple(value) raises, "" when it returns: strings, arrays
\* and objects can be iterated.
tuple_raises(j) ==
    IF j.t \in {"array", "string", "object"} THEN "" ELSE "TypeError"

\* A record of the catalogue: a JSON object with the fields that from_dict
\* can fail on, or a value that is no object.
Item(id, app_name, version, category, strategy, tags, archive_size, built_with) ==
    [t |-> "object", id |-> id, name |-> app_name, version |-> version,
     category |-> category, update_strategy |-> strategy,
     tags |-> tags, archive_size |-> archive_size, built_with |-> built_with]

NonObject(t) ==
    [t |-> t, id |-> Absent, name |-> Absent, version |-> Absent,
     category |-> Absent, update_strategy |-> Absent, tags |-> Absent,
     archive_size |-> Absent, built_with |-> Absent]

App(id, app_name) ==
    Item(Str(id), Str(app_name), Str("1.0"), Str("Games"), Absent, Absent, Absent,
         Absent)

ItemA == App("a", "A")
ItemA2 == App("a", "A2")
ItemB ==
    Item(Str("b"), Str("B"), Str("1.0"), Str("Games"), Str("full"), Arr("x"),
         Num("12"), Obj("x"))

Items ==
    { ItemA, ItemB,
      [ItemA EXCEPT !.category = Absent],
      [ItemA EXCEPT !.update_strategy = Str("delta")],
      [ItemA EXCEPT !.archive_size = Str("abc")],
      [ItemA EXCEPT !.archive_size = Str("12")],
      [ItemA EXCEPT !.tags = Num("5")],
      [ItemA EXCEPT !.id = Num("5")],
      [ItemA EXCEPT !.built_with = Str("wine")],
      [ItemA EXCEPT !.archive_size = Null, !.built_with = Arr("x")],
      NonObject("string") }

RepoItems == {ItemA, ItemA2, ItemB, NonObject("null")}

\* An AppEntry, by the fields that tell entries apart.
AppEntry(item) == [id |-> item.id, name |-> item.name]

FirstOf(excs) ==
    IF \E i \in DOMAIN excs : excs[i] # ""
    THEN excs[CHOOSE i \in DOMAIN excs :
                 excs[i] # "" /\ \A j \in 1..(i - 1) : excs[j] = ""]
    ELSE ""

\* AppEntry.from_dict: the exception that leaves it, "" when it returns the
\* entry. The checks are in the order of evaluation.
from_dict_raises(item) ==
    IF item.t # "object" THEN "AttributeError"
    ELSE FirstOf(<<
        IF item.update_strategy \in {Absent, Str("safe"), Str("full")}
            THEN "" ELSE "ValueError",
        IF item.id = Absent THEN "KeyError" ELSE "",
        IF item.name = Absent THEN "KeyError" ELSE "",
        IF item.version = Absent THEN "KeyError" ELSE "",
        IF item.category = Absent THEN "KeyError" ELSE "",
        IF item.tags = Absent THEN "" ELSE tuple_raises(item.tags),
        IF item.archive_size = Absent THEN "" ELSE int_raises(item.archive_size),
        IF Truthy(item.built_with) /\ item.built_with.t # "object"
            THEN "AttributeError" ELSE "" >>)

\* catalogue.json as it is served: the shape of the document and its records.
Doc(top, items) == [top |-> top, items |-> items]

SeqsUpTo(S, n) == UNION {[1..k -> S] : k \in 0..n}

Docs(S, n) ==
    {Doc(top, items) : top \in {"list", "object"}, items \in SeqsUpTo(S, n)}
        \cup {Doc(top, << >>) :
                top \in {"object_no_apps", "apps_null", "other", "invalid"}}

Returned(kind, value) == [kind |-> kind, value |-> value]

RECURSIVE entries_of(_, _)
\* The loop of fetch_catalogue over the records: KeyError, TypeError and
\* ValueError skip the record, any other exception leaves the loop.
entries_of(items, entries) ==
    IF items = << >> THEN Returned("entries", entries)
    ELSE LET exc == from_dict_raises(Head(items))
         IN  IF exc = ""
             THEN entries_of(Tail(items), Append(entries, AppEntry(Head(items))))
             ELSE IF exc \in {"KeyError", "TypeError", "ValueError"}
             THEN entries_of(Tail(items), entries)
             ELSE Returned(exc, << >>)

\* Repo.fetch_catalogue with _fetch_json, for a repository whose fetch_bytes
\* ends as given.
catalogue_of(world) ==
    IF world.end # "bytes" THEN Returned(world.end, << >>)
    ELSE CASE world.doc.top = "invalid" -> Returned("RepoError", << >>)
           [] world.doc.top = "other" -> Returned("RepoError", << >>)
           [] world.doc.top = "object_no_apps" -> Returned("entries", << >>)
           [] world.doc.top = "apps_null" -> Returned("TypeError", << >>)
           [] OTHER -> entries_of(world.doc.items, << >>)

\* How fetch_bytes("catalogue.json") can end.
catalogue_ends(kind) == {"bytes"} \cup fetch_bytes_ends(kind, EmptyRel)

World(end, doc) == [end |-> end, doc |-> doc]

Worlds(kind, S, n) ==
    {World("bytes", doc) : doc \in Docs(S, n)}
        \cup {World(end, Doc("invalid", << >>)) :
                end \in catalogue_ends(kind) \ {"bytes"}}

\* repo.fetch_catalogue()
fetch_catalogue ==
    /\ Ready
    /\ Len(catalogues) = 1
    /\ LET got == catalogue_of(catalogues[1])
       IN  answer' = [op |-> "fetch_catalogue", kind |-> got.kind,
                      value |-> got.value]
    /\ rhist' = Called(rhist)
    /\ UNCHANGED <<repo, catalogues, pipeline_vars, store_vars>>

CatalogueUris ==
    { Uri("", "", NoPort, <<"srv", "repo">>),
      Uri("http", "host", NoPort, <<"repo">>) }

InitCatalogue ==
    /\ PipelineIdle
    /\ StoreIdle
    /\ \E u \in CatalogueUris :
          /\ repo = [NoRepo EXCEPT !.uri = u, !.state = "ready",
                                   !.fetcher = make_fetcher(u).kind]
          /\ rhist = [RHist0 EXCEPT !.fetcher0 = make_fetcher(u).kind]
          /\ catalogues \in
                {<<w>> : w \in Worlds(make_fetcher(u).kind, Items, MaxItems)}
    /\ answer = NoAnswer

SpecCatalogue == InitCatalogue /\ [][fetch_catalogue]_vars

\* ------------------------------------------------------------- RepoManager
\* seen[entry.id] = entry on a dict that keeps insertion order: the entry
\* replaces the one of the same id where it stands, or is added at the end.
seen_put(seen, entry) ==
    IF \E i \in DOMAIN seen : seen[i].id = entry.id
    THEN [i \in DOMAIN seen |->
             IF seen[i].id = entry.id THEN entry ELSE seen[i]]
    ELSE Append(seen, entry)

RECURSIVE seen_update(_, _)
seen_update(seen, entries) ==
    IF entries = << >> THEN seen
    ELSE seen_update(seen_put(seen, Head(entries)), Tail(entries))

RECURSIVE merge(_, _)
\* The loop of fetch_all_catalogues over the repositories: RepoError skips
\* the repository, any other exception leaves the loop.
merge(worlds, seen) ==
    IF worlds = << >> THEN Returned("entries", seen)
    ELSE LET got == catalogue_of(Head(worlds))
         IN  IF got.kind = "entries"
             THEN merge(Tail(worlds), seen_update(seen, got.value))
             ELSE IF got.kind = "RepoError"
             THEN merge(Tail(worlds), seen)
             ELSE Returned(got.kind, << >>)

\* manager.fetch_all_catalogues(); the call changes nothing that a later
\* call reads, and one call is followed.
fetch_all_catalogues ==
    /\ repo = NoRepo
    /\ rhist.calls = 0
    /\ LET got == merge(catalogues, << >>)
       IN  answer' = [op |-> "fetch_all_catalogues", kind |-> got.kind,
                      value |-> got.value]
    /\ rhist' = Called(rhist)
    /\ UNCHANGED <<repo, catalogues, pipeline_vars, store_vars>>

\* The repositories of the manager: HTTP repositories with a catalogue in
\* the legacy format, one that is no JSON, or one that cannot be fetched.
RepoWorlds ==
    {World("bytes", Doc("list", items)) :
        items \in SeqsUpTo(RepoItems, MaxRepoItems)}
        \cup {World(end, Doc("invalid", << >>)) : end \in catalogue_ends("http")}

InitManager ==
    /\ PipelineIdle
    /\ StoreIdle
    /\ repo = NoRepo
    /\ rhist = RHist0
    /\ catalogues \in SeqsUpTo(RepoWorlds, MaxRepos)
    /\ answer = NoAnswer

SpecManager == InitManager /\ [][fetch_all_catalogues]_vars

\* -------------------------------------------------- properties of catalogues
\* A record with every required field and every field of its type.
WellFormed(item) ==
    /\ item.t = "object"
    /\ \A f \in {item.id, item.name, item.version, item.category} :
          f.t = "string"
    /\ item.update_strategy \in {Absent, Str("safe"), Str("full")}
    /\ item.tags.t \in {"absent", "array"}
    /\ item.archive_size.t \in {"absent", "number"}
    /\ item.built_with.t \in {"absent", "null", "object"}

\* The entries of the well-formed records, in the order of the records.
WellFormedEntries(items) ==
    LET good == SelectSeq(items, WellFormed)
    IN  [i \in DOMAIN good |-> AppEntry(good[i])]

\* The catalogue of the repository was fetched and is a list of records.
Loaded(world) == world.end = "bytes" /\ world.doc.top \in {"list", "object"}

\* C26: fetch_catalogue returns exactly the entries of the well-formed
\* records, in their order; a malformed record is skipped and never ends the
\* call.
C26_ExactlyWellFormedRecords ==
    (answer.op = "fetch_catalogue" /\ Loaded(catalogues[1])) =>
        /\ answer.kind = "entries"
        /\ answer.value = WellFormedEntries(catalogues[1].doc.items)

\* The entries a repository of the manager contributes: none when its
\* catalogue cannot be loaded.
Contributes(world) ==
    IF Loaded(world) THEN WellFormedEntries(world.doc.items) ELSE << >>

InRepo(i, app_id) ==
    \E k \in DOMAIN Contributes(catalogues[i]) :
        Contributes(catalogues[i])[k].id = app_id

\* C27: fetch_all_catalogues returns one entry for each app id of the
\* repositories, the entry of the last repository that has the id; a
\* repository whose catalogue cannot be loaded contributes nothing and does
\* not end the call.
C27_LastRepoWins ==
    answer.op = "fetch_all_catalogues" =>
        /\ answer.kind = "entries"
        /\ \A k, l \in DOMAIN answer.value :
              answer.value[k].id = answer.value[l].id => k = l
        /\ \A i \in DOMAIN catalogues :
              \A e \in DOMAIN Contributes(catalogues[i]) :
                 \E k \in DOMAIN answer.value :
                    answer.value[k].id = Contributes(catalogues[i])[e].id
        /\ \A k \in DOMAIN answer.value :
              \E i \in DOMAIN catalogues :
                 /\ \E e \in DOMAIN Contributes(catalogues[i]) :
                       Contributes(catalogues[i])[e] = answer.value[k]
                 /\ \A j \in DOMAIN catalogues :
                       j > i => ~InRepo(j, answer.value[k].id)

\* ================================================== AppEntry serialisation
\* Python values of the fields: None, str, int, tuple, list and dict, each
\* with what distinguishes it within the type ("" for the empty one).
None == J("None", "")
Tup(v) == J("tuple", v)

\* bool(value) of a Python value.
py_bool(j) ==
    CASE j.t \in {"None", "absent"} -> FALSE
      [] j.t = "number" -> j.v # "0"
      [] OTHER -> j.v # ""

BuiltWith(runner, dxvk, vkd3d) ==
    [t |-> "BuiltWith", runner |-> runner, dxvk |-> dxvk, vkd3d |-> vkd3d]

BuiltWiths ==
    {BuiltWith(Str(""), Str(""), Str("")),
     BuiltWith(Str("ge-9"), Str(""), Str("")),
     BuiltWith(Str("ge-9"), Str("2.3"), Str("2.11"))}

\* The AppEntry objects: the required fields, and of the optional fields one
\* of each way to_dict writes them (a string, a tuple, release_year, the
\* dict, an int, built_with, update_strategy).
AppEntries ==
    [id : {Str("a")}, name : {Str(""), Str("A")}, version : {Str("1.0")},
     category : {Str("Games")},
     summary : {Str(""), Str("text")},
     tags : {Tup(""), Tup("x")},
     release_year : {None, Num("0"), Num("1999")},
     store_links : {Obj(""), Obj("x")},
     archive_size : {Num("0"), Num("12")},
     built_with : {None} \cup BuiltWiths,
     update_strategy : {Str("safe"), Str("full")}]

\* _opt_str and _opt_seq: the value is written when it is true, a tuple as a
\* list.
opt(value) ==
    IF ~py_bool(value) THEN Absent
    ELSE IF value.t = "tuple" THEN Arr(value.v) ELSE value

\* BuiltWith.to_dict
BuiltWith_to_dict(b) ==
    [t |-> "object", runner |-> b.runner, dxvk |-> opt(b.dxvk),
     vkd3d |-> opt(b.vkd3d)]

\* Variant: release_year is written only when it is true.
release_year_to_dict_if_true(year) == opt(year)

\* to_dict: release_year is written unless it is None.
release_year_to_dict(year) == IF year = None THEN Absent ELSE year

\* AppEntry.to_dict
to_dict(e) ==
    [id |-> e.id, name |-> e.name, version |-> e.version,
     category |-> e.category,
     summary |-> opt(e.summary),
     tags |-> opt(e.tags),
     release_year |-> release_year_to_dict(e.release_year),
     store_links |-> opt(e.store_links),
     archive_size |-> opt(e.archive_size),
     built_with |-> IF e.built_with = None THEN Absent
                    ELSE BuiltWith_to_dict(e.built_with),
     update_strategy |-> e.update_strategy]

\* data.get(key, default)
get(value, default) == IF value = Absent THEN default ELSE value

\* tuple(value) of a list
tuple(value) == IF value.t = "array" THEN Tup(value.v) ELSE value

\* BuiltWith.from_dict
BuiltWith_from_dict(d) ==
    BuiltWith(get(d.runner, Str("")), get(d.dxvk, Str("")),
              get(d.vkd3d, Str("")))

\* A dict with a key is true.
dict_bool(d) == d # Absent /\ (d.t = "object" \/ py_bool(d))

\* AppEntry.from_dict on a dict that to_dict has written
from_dict(d) ==
    [id |-> d.id, name |-> d.name, version |-> d.version,
     category |-> d.category,
     summary |-> get(d.summary, Str("")),
     tags |-> tuple(get(d.tags, Arr(""))),
     release_year |-> get(d.release_year, None),
     store_links |-> get(d.store_links, Obj("")),
     archive_size |-> get(d.archive_size, Num("0")),
     built_with |-> IF dict_bool(d.built_with)
                    THEN BuiltWith_from_dict(d.built_with) ELSE None,
     update_strategy |-> get(d.update_strategy, Str("safe"))]

\* e.to_dict()
AppEntry_to_dict ==
    /\ answer.op = "AppEntry"
    /\ answer' = [op |-> "to_dict", entry |-> answer.entry,
                  dict |-> to_dict(answer.entry)]
    /\ UNCHANGED <<repo, catalogues, rhist, pipeline_vars, store_vars>>

\* AppEntry.from_dict(d)
AppEntry_from_dict ==
    /\ answer.op = "to_dict"
    /\ answer' = [op |-> "from_dict", entry |-> answer.entry,
                  dict |-> answer.dict, restored |-> from_dict(answer.dict)]
    /\ UNCHANGED <<repo, catalogues, rhist, pipeline_vars, store_vars>>

InitEntry ==
    /\ PipelineIdle
    /\ StoreIdle
    /\ repo = NoRepo
    /\ rhist = RHist0
    /\ catalogues = << >>
    /\ answer \in {[op |-> "AppEntry", entry |-> e] : e \in AppEntries}

EntryNext ==
    \/ AppEntry_to_dict
    \/ AppEntry_from_dict

SpecEntry == InitEntry /\ [][EntryNext]_vars

\* C31: from_dict(e.to_dict()) equals e for every AppEntry e.
C31_RoundTrip ==
    answer.op = "from_dict" => answer.restored = answer.entry

C31_Witness ==
    /\ answer.op = "from_dict"
    /\ answer.entry.release_year = Num("0")
    /\ answer.entry.built_with = BuiltWith(Str(""), Str(""), Str(""))
    /\ answer.entry.summary = Str("")
    /\ answer.dict.summary = Absent
    /\ answer.dict.release_year = Num("0")
    /\ answer.restored.tags = Tup("")

\* ========================================================= installed table
AppIds == {"a", "b"}

\* The arguments of mark_installed.
MarkArgs ==
    [app_id : AppIds, bottle_name : {"a", "a-2"}, version : {"1.0", "2.0"},
     repo_source : {"", "repo"}]

\* The row mark_installed inserts.
new_row(args, now) ==
    [bottle_name |-> args.bottle_name, installed_version |-> args.version,
     installed_at |-> now, last_updated |-> now,
     repo_source |-> args.repo_source]

\* Variant: the conflicting row is replaced by the new one.
do_update_replacing(row, excluded) == excluded

\* ON CONFLICT(id) DO UPDATE SET: every column but installed_at is taken from
\* the row that could not be inserted.
do_update(row, excluded) ==
    [excluded EXCEPT !.installed_at = row.installed_at]

\* datetime.now() has been read; the next reading is later.
Tick(d) == [d EXCEPT !.now = @ + 1]

\* The call is the last one committed on the id, made at the given time.
Recorded(d, app_id, call_made) ==
    [d EXCEPT !.last = (app_id :> call_made) @@ @]

\* mark_installed(app_id, bottle_name, version, repo_source): the upsert is
\* committed, or sqlite3 raises and the transaction is rolled back.
mark_installed ==
    /\ db.now < MaxCalls
    /\ \E args \in MarkArgs :
          \/ db' = Recorded(Tick([db EXCEPT !.rows =
                      (args.app_id :>
                         IF args.app_id \in DOMAIN db.rows
                         THEN do_update(db.rows[args.app_id],
                                        new_row(args, db.now))
                         ELSE new_row(args, db.now)) @@ @]),
                      args.app_id, [op |-> "mark_installed", args |-> args, at |-> db.now])
          \/ db' = Tick(db)
    /\ UNCHANGED <<sessions, dest_root, repo_vars, pipeline_vars>>

\* remove_installed(app_id): the row is deleted when there is one, or
\* sqlite3 raises and the transaction is rolled back.
remove_installed ==
    /\ db.now < MaxCalls
    /\ \E app_id \in AppIds :
          \/ db' = Recorded(Tick([db EXCEPT !.rows =
                      [k \in DOMAIN db.rows \ {app_id} |-> db.rows[k]]]),
                      app_id, [op |-> "remove_installed", args |-> app_id,
                       at |-> db.now])
          \/ db' = Tick(db)
    /\ UNCHANGED <<sessions, dest_root, repo_vars, pipeline_vars>>

InitDb ==
    /\ PipelineIdle
    /\ RepoIdle
    /\ StoreIdle

DbNext ==
    \/ mark_installed
    \/ remove_installed

SpecDb == InitDb /\ [][DbNext]_vars

\* The record of the id agrees with the last call made on the id that was
\* committed.
AsLastCall(d, app_id) ==
    IF app_id \in DOMAIN d.last /\ d.last[app_id].op = "mark_installed"
    THEN /\ app_id \in DOMAIN d.rows
         /\ d.rows[app_id].bottle_name = d.last[app_id].args.bottle_name
         /\ d.rows[app_id].installed_version = d.last[app_id].args.version
         /\ d.rows[app_id].repo_source = d.last[app_id].args.repo_source
    ELSE app_id \notin DOMAIN d.rows

\* C32: a record exists for an id exactly when the last call on the id was
\* mark_installed, it carries the bottle_name, installed_version and
\* repo_source of that call, while the record exists installed_at does not
\* change, and remove_installed on an absent id changes no record.
C32_InstalledTable ==
    [][\A app_id \in AppIds :
          /\ AsLastCall(db', app_id)
          /\ (app_id \in DOMAIN db.rows /\ app_id \in DOMAIN db'.rows) =>
                db'.rows[app_id].installed_at = db.rows[app_id].installed_at
          /\ (/\ app_id \notin DOMAIN db.rows
              /\ app_id \in DOMAIN db'.last
              /\ db'.last[app_id].at = db.now
              /\ db'.last[app_id].op = "remove_installed") =>
                db'.rows = db.rows]_vars

C32_Witness ==
    /\ "a" \in DOMAIN db.rows
    /\ db.rows["a"].installed_at < db.rows["a"].last_updated
    /\ db.rows["a"].bottle_name = "a-2"
    /\ "b" \in DOMAIN db.last
    /\ db.last["b"].op = "remove_installed"

\* ======================================================= Bottles detection
\* What the detection reads: the override path (none, a directory, not a
\* directory), whether _FLATPAK_DATA and _NATIVE_DATA are directories,
\* whether /.flatpak-info exists, and whether bottles-cli is on PATH.
Hosts ==
    [override : {"None", "dir", "missing"}, flatpak_data : BOOLEAN,
     native_data : BOOLEAN, flatpak_info : BOOLEAN, bottles_cli : BOOLEAN]

\* _build_cli_cmd
build_cli_cmd(is_flatpak_bottles, sandboxed) ==
    (IF sandboxed THEN <<"flatpak-spawn", "--host">> ELSE << >>)
        \o (IF is_flatpak_bottles
            THEN <<"flatpak", "run", "--command=bottles-cli",
                   "com.usebottles.bottles">>
            ELSE <<"bottles-cli">>)

BottlesInstall(path, variant, cli_cmd) ==
    [data_path |-> path, variant |-> variant, cli_cmd |-> cli_cmd]

\* detect_all_bottles(override_path) on the host
detect_all(host) ==
    LET sandboxed == host.flatpak_info
    IN  IF host.override # "None"
        THEN IF host.override = "dir"
             THEN <<BottlesInstall("override", "custom",
                                   build_cli_cmd(FALSE, sandboxed))>>
             ELSE << >>
        ELSE (IF host.flatpak_data
              THEN <<BottlesInstall("_FLATPAK_DATA", "flatpak",
                                    build_cli_cmd(TRUE, sandboxed))>>
              ELSE << >>)
             \o (IF host.native_data
                 THEN <<BottlesInstall("_NATIVE_DATA", "native",
                                       build_cli_cmd(FALSE, sandboxed))>>
                 ELSE << >>)

\* detect_all_bottles(override_path)
detect_all_bottles ==
    /\ answer.op = "host"
    /\ answer' = [op |-> "detect_all_bottles", host |-> answer.host,
                  value |-> detect_all(answer.host)]
    /\ UNCHANGED <<repo, catalogues, rhist, pipeline_vars, store_vars>>

\* detect_bottles(override_path): the first installation, or None
detect_bottles ==
    /\ answer.op = "host"
    /\ LET results == detect_all(answer.host)
       IN  answer' = [op |-> "detect_bottles", host |-> answer.host,
                      value |-> IF results # << >> THEN <<results[1]>>
                                                   ELSE << >>]
    /\ UNCHANGED <<repo, catalogues, rhist, pipeline_vars, store_vars>>

InitBottles ==
    /\ PipelineIdle
    /\ StoreIdle
    /\ repo = NoRepo
    /\ rhist = RHist0
    /\ catalogues = << >>
    /\ answer \in {[op |-> "host", host |-> h] : h \in Hosts}

BottlesNext ==
    \/ detect_all_bottles
    \/ detect_bottles

SpecBottles == InitBottles /\ [][BottlesNext]_vars

\* C33: without an override path a native installation is reported only
\* when the native data directory exists and bottles-cli is on PATH, and
\* detect_bottles returns None when nothing else is found.
C33_NativeNeedsBinary ==
    (answer.op \in {"detect_all_bottles", "detect_bottles"}
        /\ answer.host.override = "None") =>
        /\ (\E i \in DOMAIN answer.value : answer.value[i].variant = "native")
              => (answer.host.native_data /\ answer.host.bottles_cli)
        /\ (answer.op = "detect_bottles" /\ ~answer.host.flatpak_data
              /\ ~answer.host.bottles_cli) => answer.value = << >>

\* ============================================================== categories
BASE_CATEGORIES == <<"Games", "Productivity", "Graphics", "Utility">>

\* The category names a catalogue stores.
StoredNames == {"Games", "Utility", "Emulators", "Demos"}

\* The "categories" key of a catalogue that is an object: missing, null, or
\* a list of names.
Stored(t, names) == [t |-> t, names |-> names]

CategoryDocs ==
    {[top |-> "object", categories |-> Stored("array", names)] :
        names \in SeqsUpTo(StoredNames, MaxItems)}
        \cup {[top |-> "object", categories |-> Stored(t, << >>)] :
                t \in {"absent", "null"}}
        \cup {[top |-> top, categories |-> Stored("absent", << >>)] :
                top \in {"list", "invalid"}}

CategoryWorlds(kind) ==
    {World("bytes", doc) : doc \in CategoryDocs}
        \cup {World(end, [top |-> "invalid",
                          categories |-> Stored("absent", << >>)]) :
                end \in catalogue_ends(kind) \ {"bytes"}}

InSeq(x, seq) == \E i \in DOMAIN seq : seq[i] = x

NotBase(c) == ~InSeq(c, BASE_CATEGORIES)

\* Repo.fetch_categories for a repository whose fetch_bytes ends as given:
\* RepoError, from the fetch or from the JSON, gives the base categories;
\* the stored names that are no base category are added as they come.
categories_of(world) ==
    IF world.end = "RepoError" THEN Returned("list", BASE_CATEGORIES)
    ELSE IF world.end # "bytes" THEN Returned(world.end, << >>)
    ELSE IF world.doc.top = "invalid" THEN Returned("list", BASE_CATEGORIES)
    ELSE IF world.doc.top # "object" \/ world.doc.categories.t = "absent"
    THEN Returned("list", BASE_CATEGORIES)
    ELSE IF world.doc.categories.t = "null" THEN Returned("TypeError", << >>)
    ELSE Returned("list",
             BASE_CATEGORIES \o SelectSeq(world.doc.categories.names, NotBase))

\* repo.fetch_categories()
fetch_categories ==
    /\ Ready
    /\ Len(catalogues) = 1
    /\ LET got == categories_of(catalogues[1])
       IN  answer' = [op |-> "fetch_categories", kind |-> got.kind,
                      value |-> got.value]
    /\ rhist' = Called(rhist)
    /\ UNCHANGED <<repo, catalogues, pipeline_vars, store_vars>>

InitCategories ==
    /\ PipelineIdle
    /\ StoreIdle
    /\ \E u \in CatalogueUris :
          /\ repo = [NoRepo EXCEPT !.uri = u, !.state = "ready",
                                   !.fetcher = make_fetcher(u).kind]
          /\ rhist = [RHist0 EXCEPT !.fetcher0 = make_fetcher(u).kind]
          /\ catalogues \in
                {<<w>> : w \in CategoryWorlds(make_fetcher(u).kind)}
    /\ answer = NoAnswer

SpecCategories == InitCategories /\ [][fetch_categories]_vars

\* C34: for a stored list of categories fetch_categories returns the base
\* categories followed by the stored custom categories in their order, and
\* no category more than once.
C34_BaseThenCustomOnce ==
    (answer.op = "fetch_categories" /\ catalogues[1].end = "bytes"
        /\ catalogues[1].doc.top = "object"
        /\ catalogues[1].doc.categories.t = "array") =>
        /\ answer.kind = "list"
        /\ SubSeq(answer.value, 1, Len(BASE_CATEGORIES)) = BASE_CATEGORIES
        /\ SubSeq(answer.value, Len(BASE_CATEGORIES) + 1, Len(answer.value))
              = SelectSeq(catalogues[1].doc.categories.names, NotBase)
        /\ \A i, j \in DOMAIN answer.value :
              answer.value[i] = answer.value[j] => i = j

\* ===================================================== concurrent installs
\* Two install_app calls for the same entry and the same data path. Steps 1
\* to 4 of a call work in its own temporary directory; the calls meet at
\* steps 5 and 6, which are followed here.
Sessions == {"s1", "s2"}

\* The files of the bottle directory each call has identified.
PlacedFiles == {"bottle.yml", "drive_c"}

\* A directory under the data path: who created it, the files copied into
\* it, and whether a call has returned it as installed.
Dir(by, files, installed) ==
    [by |-> by, files |-> files, installed |-> installed]

\* The data paths the calls find: empty, or with a bottle of the entry's id
\* that was installed before.
DestRoots == {<< >>, EntryId :> Dir("other", PlacedFiles, TRUE)}

Session0 ==
    [pc |-> "name", bottle_name |-> "", outcome |-> "running", todo |-> {},
     existed |-> FALSE, removed |-> {}]

\* The call leaves with the exception after its failure handler has run
\* shutil.rmtree(bottle_dest, ignore_errors=True).
session_failed(i, exc) ==
    LET n == sessions[i].bottle_name
    IN  /\ dest_root' = rmtree(dest_root, n)
        /\ sessions' = [sessions EXCEPT
              ![i].pc = "done", ![i].outcome = exc,
              ![i].removed = IF n \in DOMAIN dest_root
                             THEN @ \cup {dest_root[n]} ELSE @]

\* Step 5: bottle_name = _safe_bottle_name(entry.id, data_path)
session_name ==
    /\ \E i \in Sessions :
          /\ sessions[i].pc = "name"
          /\ sessions' = [sessions EXCEPT
                ![i].pc = "place",
                ![i].bottle_name = safe_bottle_name(EntryId, dest_root)]
    /\ UNCHANGED <<dest_root, db, repo_vars, pipeline_vars>>

\* Step 6 begins: _check_cancel, then copytree creates bottle_dest or fails
\* because it exists.
session_place ==
    /\ \E i \in Sessions :
          /\ sessions[i].pc = "place"
          /\ LET n == sessions[i].bottle_name
             IN  \/ /\ sessions' = [sessions EXCEPT ![i].pc = "done",
                                       ![i].outcome = "InstallCancelled"]
                    /\ UNCHANGED dest_root
                 \/ IF n \in DOMAIN dest_root
                    THEN /\ dest_root' = rmtree(dest_root, n)
                         /\ sessions' = [sessions EXCEPT
                               ![i].pc = "done",
                               ![i].outcome = "FileExistsError",
                               ![i].existed = TRUE,
                               ![i].removed = @ \cup {dest_root[n]}]
                    ELSE /\ dest_root' = (n :> Dir(i, {}, FALSE)) @@ dest_root
                         /\ sessions' = [sessions EXCEPT
                               ![i].pc = "copytree", ![i].todo = PlacedFiles]
    /\ UNCHANGED <<db, repo_vars, pipeline_vars>>

\* copytree copies one more file into bottle_dest, fails, or is through and
\* install_app returns bottle_name.
session_copytree ==
    /\ \E i \in Sessions :
          /\ sessions[i].pc = "copytree"
          /\ LET n == sessions[i].bottle_name
             IN  IF sessions[i].todo = {}
                 THEN /\ sessions' = [sessions EXCEPT ![i].pc = "done",
                                         ![i].outcome = "returned"]
                      /\ dest_root' =
                            IF n \in DOMAIN dest_root
                            THEN [dest_root EXCEPT ![n].installed = TRUE]
                            ELSE dest_root
                 ELSE \E f \in sessions[i].todo :
                        \/ /\ n \in DOMAIN dest_root
                           /\ dest_root' = [dest_root EXCEPT
                                               ![n].files = @ \cup {f}]
                           /\ sessions' = [sessions EXCEPT
                                              ![i].todo = @ \ {f}]
                        \/ session_failed(i, "OSError")
    /\ UNCHANGED <<db, repo_vars, pipeline_vars>>

\* Something else (Bottles, the user) creates a directory under the data
\* path.
other_mkdir ==
    /\ \E n \in CandidateNames :
          /\ n \notin DOMAIN dest_root
          /\ \A m \in DOMAIN dest_root : dest_root[m].by # "other"
          /\ dest_root' = (n :> Dir("other", {}, TRUE)) @@ dest_root
    /\ UNCHANGED <<sessions, db, repo_vars, pipeline_vars>>

InitSessions ==
    /\ PipelineIdle
    /\ RepoIdle
    /\ db = NoDb
    /\ sessions = [i \in Sessions |-> Session0]
    /\ dest_root \in DestRoots

SessionsNext ==
    \/ session_name
    \/ session_place
    \/ session_copytree
    \/ other_mkdir

SpecSessions == InitSessions /\ [][SessionsNext]_vars

\* C35: the directory a call copies into does not exist when its copy
\* starts, and two calls that return have different names.
C35_FreshDestination ==
    /\ \A i \in Sessions : ~sessions[i].existed
    /\ \A i, j \in Sessions :
          (i # j /\ sessions[i].outcome = "returned"
                 /\ sessions[j].outcome = "returned") =>
             sessions[i].bottle_name # sessions[j].bottle_name

\* C36: the failure cleanup of a call removes only directories that the
\* call created itself.
C36_CleanupOnlyOwn ==
    \A i \in Sessions : \A d \in sessions[i].removed : d.by = i

\* ------------------------------------- properties of archives and writing
\* C37 as claimed: the location of an archive is accepted by the acquire
\* step for every transport.
C37_LocationAccepted ==
    (repo.state = "ready" /\ answer.op = "acquire") =>
        answer.kind = "accepted"

\* C37: the location of an archive is accepted by the acquire step for
\* local, HTTP(S) and SMB repositories; for an SSH repository it is an
\* ssh:// URI, which the acquire step rejects with InstallError.
C37_LocationAcceptedUnlessSsh ==
    (repo.state = "ready" /\ answer.op = "acquire") =>
        /\ repo.fetcher \in {"local", "http", "smb"} =>
              answer.kind = "accepted"
        /\ repo.fetcher = "ssh" =>
              answer.scheme = "ssh" /\ answer.kind = "InstallError"
        /\ repo.fetcher = "local" => answer.scheme = ""

C37_Witness ==
    /\ repo.state = "ready"
    /\ answer.op = "acquire"
    /\ repo.fetcher = "ssh"
    /\ answer.kind = "InstallError"

\* C38: the request that downloads an archive from an HTTP(S) repository
\* carries the bearer token and the trust settings of the repository, as
\* the requests of its fetch_bytes do.
C38_ArchiveRequestAuthorized ==
    /\ (repo.state = "ready" /\ answer.op = "fetch_bytes"
          /\ repo.fetcher = "http") =>
          answer.request = Request(repo.token, repo.ssl)
    /\ (repo.state = "ready" /\ answer.op = "acquire"
          /\ repo.fetcher = "http") =>
          answer.request = Request(repo.token, repo.ssl)

\* C39: writable_path refuses for the transport only repositories whose
\* is_writable is False.
C39_WritableNotRefused ==
    (repo.state = "ready" /\ answer.op = "writable_path"
        /\ answer.kind = "RepoError" /\ answer.why = "no local write") =>
        ~is_writable(repo.uri)

====
